---- MODULE Spec2Model ----
(***************************************************************************)
(* Verification model of the Pack data pipeline:                           *)
(*   - the session-pairing query that builds fct_sessions from raw_events, *)
(*   - validate.run_checks, the post-transform data-quality checks,        *)
(*   - the rebooking analysis, its sanity warnings and wilson_ci,          *)
(*   - utils.StepTimer, the step timeout guard and its watcher,            *)
(*   - run_pipeline.main, the phases of a run,                             *)
(*   - ingest.py, the loading of the raw tables.                           *)
(*                                                                         *)
(* A nullable SQL value is a set with at most one element: {} is NULL and  *)
(* {v} is the value v.  Timestamps are counted in ticks of a fraction of a *)
(* minute (TicksPerMinute ticks make one minute).  Text that the code      *)
(* edits character by character (mentor ids, tier names) is a sequence of  *)
(* one-character strings.                                                  *)
(***************************************************************************)
EXTENDS Integers, Sequences, FiniteSets, TLC

\* ------------------------------------------------------------------ bounds
MaxEvents == 3
MaxTime == 3
TicksPerMinute == 2
MaxSessionRows == 2
MaxBookings == 2
MaxAnalysisSessions == 3
TicksPerDay == 2
MaxN == 5
Scale == 1000
MaxSourceRows == 2
MaxCalls == 2

\* --------------------------------------------------------------- constants
MAX_DURATION_MINS == 240
DefaultSessionDuration == 30
MIN_USERS == 30
DefaultWindowDays == 30

VARIABLES
    raw_events,         \* table raw_events: a set of event rows, event_id unique
    default_duration,   \* config.default_session_duration_minutes of the run
    fct_sessions,       \* table fct_sessions
    iso_partition,      \* second pairing run: the partition whose events it is given
    iso_sessions,       \* second pairing run: its fct_sessions
    pairing_pc,         \* "raw" -> "built" -> "compared"; "seeded": rows written directly
    fct_bookings,       \* table fct_bookings: NULL when not materialised, else its rows
    dim_mentors,        \* table dim_mentors
    dq_config,          \* run_checks' config argument: NULL for None
    dq_pc,              \* where run_checks is: "idle", the check it is at, "returned", "raised"
    failures,           \* run_checks' failures list
    warnings,           \* run_checks' warnings list
    has_fct_bookings,   \* run_checks' local of that name
    existing,           \* run_checks' local of that name (Check 6)
    dq_error,           \* the DataQualityError run_checks raised, NULL when none
    dq_faults,          \* the queries the engine has answered other than normally
    rebooking_window,   \* config.rebooking_window_days of the analysis run: NULL for None
    rebooking_df,       \* the rows of the rebooking analysis
    run_warnings,       \* the sanity warnings added to the run log
    analysis_pc,        \* "idle", "sessions" -> "analysed" -> "warned"
    wilson_args,        \* the last call of _wilson_ci: <<k, n>>, <<>> before any
    wilson_centre,      \* its local centre, as a percentage
    wilson_ci,          \* the pair it returned: <<lower, upper>>
    step_timeout,       \* config.step_timeout_seconds
    guard_timeout,      \* StepTimer._timeout: NULL for None
    main_pc,            \* main thread: "idle", "start", "block", "join", "handler",
                        \*   "returned", "raised"
    block_exc,          \* the exception that left the guarded block, NULL when none
    surfaced,           \* the exception main() let out, NULL when none
    done,               \* StepTimer._done is set
    watcher_pc,         \* watcher thread: "none", "started", "wait_deadline", "soft_kill",
                        \*   "wait_grace", "hard_kill", "returned"
    pending_exc,        \* an asynchronous exception is set on the main thread
    process,            \* "alive", "killed" by os._exit(1), or "exited"
    run_status,         \* the status last given to run_log.finish, NULL when none
    guard_log,          \* the events of the guard so far, in order
    store,              \* the warehouse's raw tables: NULL when absent, else the rows
    ingest_call,        \* the last call of an ingest function, NULL before any
    ingest_count,       \* the number of ingest calls made
    config,             \* main's PipelineConfig, NULL before a run
    mode,               \* main's mode argument
    orch_pc,            \* where main is
    orch_exc,           \* the exception main let out, NULL when none
    connections,        \* the owners of the connections open on the warehouse
    orch_log            \* what main has done so far, in order

pairingVars == <<raw_events, default_duration, iso_partition, iso_sessions, pairing_pc>>

dqVars == <<fct_bookings, dim_mentors, dq_config, dq_pc, failures, warnings,
            has_fct_bookings, existing, dq_error, dq_faults>>

analysisVars == <<rebooking_window, rebooking_df, run_warnings, analysis_pc>>

wilsonVars == <<wilson_args, wilson_centre, wilson_ci>>

\* What neither session pairing, run_checks nor the analysis touches.
guardVars == <<step_timeout, guard_timeout, main_pc, block_exc, surfaced, done,
              watcher_pc, pending_exc, process, run_status, guard_log>>

ingestVars == <<store, ingest_call, ingest_count>>

orchVars == <<config, mode, orch_pc, orch_exc, connections, orch_log>>

\* What only ingestion and the orchestrator's phase sequence touch.
lateVars == <<ingestVars, orchVars>>

outerVars == <<wilsonVars, guardVars, lateVars>>

restVars == <<analysisVars, outerVars>>

vars == <<pairingVars, fct_sessions, dqVars, restVars>>

\* ---------------------------------------------------------- nullable values
NULL == {}
Some(v) == {v}
IsNull(n) == n = {}
Val(n) == CHOOSE v \in n : TRUE

\* SQL MIN(): NULL over no rows, otherwise the least value.
MinOf(S) == IF S = {} THEN NULL ELSE Some(CHOOSE m \in S : \A x \in S : m <= x)

\* -------------------------------------------------------------------- text
M01 == <<"M", "0", "1">>
M01pad == <<" ", "M", "0", "1">>
M02 == <<"M", "0", "2">>
M03 == <<"M", "0", "3">>

RECURSIVE LTrim(_)
LTrim(s) == IF s # <<>> /\ Head(s) = " " THEN LTrim(Tail(s)) ELSE s

RECURSIVE RTrim(_)
RTrim(s) ==
    IF s # <<>> /\ s[Len(s)] = " " THEN RTrim(SubSeq(s, 1, Len(s) - 1)) ELSE s

\* SQL TRIM(mentor_id): leading and trailing blanks removed.
Trim(s) == RTrim(LTrim(s))

\* ------------------------------------------------------------ event sources
\* The (user_id, mentor_id) pairs events arrive with; mentor_id may carry
\* blanks.  Three partitions: (1, M01), (1, M02), (2, M01).
SourceKeys == << <<1, M01>>, <<1, M01pad>>, <<1, M02>>, <<2, M01>> >>

\* session_started, session_ended, and an event type the pairing ignores.
EventTypes == <<"session_started", "session_ended", "booking_requested">>

Timestamps == 1..MaxTime

\* config.default_session_duration_minutes: the default and one other value.
DefaultDurations == {20, DefaultSessionDuration}

\* Rows are enumerated up to the renaming of event ids: pairing reads an id
\* only as the identity of its row, so a source is taken with its rows in
\* non-decreasing Rank.
Rank(k, ty, t) == ((k - 1) * Len(EventTypes) + (ty - 1)) * MaxTime + t

LastRank(events) ==
    IF events = {} THEN 0
    ELSE LET last == CHOOSE e \in events : e.event_id = Cardinality(events)
             k == CHOOSE i \in 1..Len(SourceKeys) :
                      SourceKeys[i] = <<last.user_id, last.mentor_id>>
             ty == CHOOSE i \in 1..Len(EventTypes) : EventTypes[i] = last.event_type
         IN  Rank(k, ty, last.timestamp)

\* ---------------------------------------------------------- session pairing
PartitionOf(r) == <<r.user_id, Trim(r.mentor_id)>>

StartEvents(events) == {e \in events : e.event_type = "session_started"}
EndEvents(events) == {e \in events : e.event_type = "session_ended"}

\* ORDER BY "timestamp" ASC: every arrangement of the rows, as a sequence of
\* their event ids, with timestamps non-decreasing.  SQL leaves the order of
\* rows with equal keys to the engine.
WindowOrders(rows) ==
    LET ids == {r.event_id : r \in rows}
        n == Cardinality(ids)
        ts == [id \in ids |-> (CHOOSE r \in rows : r.event_id = id).timestamp]
    IN  {o \in [1..n -> ids] :
            /\ \A i \in 1..n : \A j \in (i + 1)..n : o[i] # o[j]
            /\ \A i \in 1..(n - 1) : ts[o[i]] <= ts[o[i + 1]]}

PosIn(ord, id) == CHOOSE i \in 1..Len(ord) : ord[i] = id

\* LEAD(timestamp) OVER (PARTITION BY user_id, TRIM(mentor_id) ORDER BY timestamp)
Lead(rows, ord, r) ==
    LET pos == PosIn(ord, r.event_id)
        later == {i \in (pos + 1)..Len(ord) :
                     \E x \in rows : x.event_id = ord[i] /\ PartitionOf(x) = PartitionOf(r)}
    IN  IF later = {} THEN NULL
        ELSE LET nxt == CHOOSE i \in later : \A j \in later : i <= j
             IN  Some((CHOOSE x \in rows : x.event_id = ord[nxt]).timestamp)

\* CTE session_starts
SessionStartsCTE(events, ord) ==
    {[event_id      |-> e.event_id,
      user_id       |-> e.user_id,
      mentor_id     |-> Trim(e.mentor_id),
      started_at    |-> e.timestamp,
      next_start_at |-> Lead(StartEvents(events), ord, e)] : e \in StartEvents(events)}

\* CTE session_ends
SessionEndsCTE(events) ==
    {[event_id  |-> e.event_id,
      user_id   |-> e.user_id,
      mentor_id |-> Trim(e.mentor_id),
      ended_at  |-> e.timestamp] : e \in EndEvents(events)}

\* JoinOn with the next start's boundary inclusive.
JoinOnInclusive(s, e) ==
    /\ s.user_id = e.user_id
    /\ s.mentor_id = e.mentor_id
    /\ e.ended_at > s.started_at
    /\ (IsNull(s.next_start_at) \/ e.ended_at <= Val(s.next_start_at))

\* JoinOn without the next start's boundary.
JoinOnNoBoundary(s, e) ==
    /\ s.user_id = e.user_id
    /\ s.mentor_id = e.mentor_id
    /\ e.ended_at > s.started_at

\* JoinOn without the test that the end follows the start.
JoinOnNoAfter(s, e) ==
    /\ s.user_id = e.user_id
    /\ s.mentor_id = e.mentor_id
    /\ (IsNull(s.next_start_at) \/ e.ended_at < Val(s.next_start_at))

\* The ON clause of the LEFT JOIN.
JoinOn(s, e) ==
    /\ s.user_id = e.user_id
    /\ s.mentor_id = e.mentor_id
    /\ e.ended_at > s.started_at
    /\ (IsNull(s.next_start_at) \/ e.ended_at < Val(s.next_start_at))

\* Paired with an inner JOIN: a start without a joined end yields no row.
PairedInnerJoin(starts, ends) ==
    {[session_id |-> s.event_id,
      user_id    |-> s.user_id,
      mentor_id  |-> s.mentor_id,
      started_at |-> s.started_at,
      ended_at   |-> MinOf({e.ended_at : e \in {x \in ends : JoinOn(s, x)}})] :
        s \in {x \in starts : \E e \in ends : JoinOn(x, e)}}

\* CTE paired: LEFT JOIN, GROUP BY the start's columns, MIN(e.ended_at).
Paired(starts, ends) ==
    {[session_id |-> s.event_id,
      user_id    |-> s.user_id,
      mentor_id  |-> s.mentor_id,
      started_at |-> s.started_at,
      ended_at   |-> MinOf({e.ended_at : e \in {x \in ends : JoinOn(s, x)}})] :
        s \in starts}

\* DATEDIFF('minute', a, b): the number of minute boundaries between a and b.
DateDiffMinute(a, b) == (b \div TicksPerMinute) - (a \div TicksPerMinute)

\* COALESCE(DATEDIFF('minute', started_at, ended_at), <default duration>)
DurationMinutes(p, dflt) ==
    IF IsNull(p.ended_at) THEN dflt ELSE DateDiffMinute(p.started_at, Val(p.ended_at))

\* IsDurationEstimated with the test inverted.
IsDurationEstimatedInverted(p) == ~IsNull(p.ended_at)

\* ended_at IS NULL AS is_duration_estimated
IsDurationEstimated(p) == IsNull(p.ended_at)

\* The final SELECT of fct_sessions.
FctSessions(events, ord, dflt) ==
    {[session_id            |-> p.session_id,
      user_id               |-> p.user_id,
      mentor_id             |-> p.mentor_id,
      started_at            |-> p.started_at,
      ended_at              |-> p.ended_at,
      duration_minutes      |-> DurationMinutes(p, dflt),
      is_duration_estimated |-> IsDurationEstimated(p)] :
        p \in Paired(SessionStartsCTE(events, ord), SessionEndsCTE(events))}

\* ------------------------------------------------------------------ actions
\* The analyses have not been run.
AnalysisIdle ==
    /\ rebooking_window = NULL
    /\ rebooking_df = {}
    /\ run_warnings = {}
    /\ analysis_pc = "idle"

\* _wilson_ci has not been called.
WilsonIdle ==
    /\ wilson_args = <<>>
    /\ wilson_centre = 0
    /\ wilson_ci = <<>>

\* No StepTimer has been made.
GuardIdle ==
    /\ step_timeout = 0
    /\ guard_timeout = NULL
    /\ main_pc = "idle"
    /\ block_exc = NULL
    /\ surfaced = NULL
    /\ done = FALSE
    /\ watcher_pc = "none"
    /\ pending_exc = FALSE
    /\ process = "alive"
    /\ run_status = NULL
    /\ guard_log = <<>>

\* No ingest function has been called on the warehouse.
IngestIdle ==
    /\ store = [raw_users |-> NULL, raw_mentors |-> NULL, raw_events |-> NULL]
    /\ ingest_call = NULL
    /\ ingest_count = 0

\* main has not been called.
OrchIdle ==
    /\ config = NULL
    /\ mode = "full"
    /\ orch_pc = "idle"
    /\ orch_exc = NULL
    /\ connections = {}
    /\ orch_log = <<>>

LateIdle == IngestIdle /\ OrchIdle

OuterIdle == WilsonIdle /\ GuardIdle /\ LateIdle

\* What lies outside session pairing and run_checks is at rest.
RestIdle == AnalysisIdle /\ OuterIdle

\* run_checks has not been called, and the tables it reads are not built.
DQIdle ==
    /\ fct_bookings = NULL
    /\ dim_mentors = {}
    /\ dq_config = NULL
    /\ dq_pc = "idle"
    /\ failures = <<>>
    /\ warnings = <<>>
    /\ has_fct_bookings = FALSE
    /\ existing = {}
    /\ dq_error = NULL
    /\ dq_faults = {}

InitPairing ==
    /\ raw_events = {}
    /\ default_duration = DefaultSessionDuration
    /\ fct_sessions = {}
    /\ iso_partition = <<>>
    /\ iso_sessions = {}
    /\ pairing_pc = "raw"
    /\ DQIdle
    /\ RestIdle

\* One more event row reaches raw_events (ingest keeps event_id unique).  An
\* event of a type the pairing ignores is taken with one key and one
\* timestamp: the query filters it out before reading either.
IngestEvent(k, ty, t) ==
    /\ pairing_pc = "raw"
    /\ Cardinality(raw_events) < MaxEvents
    /\ EventTypes[ty] \notin {"session_started", "session_ended"} => (k = 1 /\ t = 1)
    /\ Rank(k, ty, t) >= LastRank(raw_events)
    /\ raw_events' = raw_events \cup
           {[event_id   |-> Cardinality(raw_events) + 1,
             event_type |-> EventTypes[ty],
             user_id    |-> SourceKeys[k][1],
             mentor_id  |-> SourceKeys[k][2],
             timestamp  |-> t]}
    /\ UNCHANGED <<default_duration, fct_sessions, iso_partition, iso_sessions,
                   pairing_pc, dqVars, restVars>>

\* The transform run under a configuration whose default session duration is
\* dflt: fct_sessions is rebuilt from raw_events.
RunPairing(dflt) ==
    /\ pairing_pc = "raw"
    /\ default_duration' = dflt
    /\ \E ord \in WindowOrders(StartEvents(raw_events)) :
           fct_sessions' = FctSessions(raw_events, ord, dflt)
    /\ pairing_pc' = "built"
    /\ UNCHANGED <<raw_events, iso_partition, iso_sessions, dqVars, restVars>>

\* A second run of the same query over a source that differs from raw_events
\* only in the events of other partitions: here, none of them.
RunPairingIsolated(part) ==
    /\ pairing_pc = "built"
    /\ LET own == {e \in raw_events : PartitionOf(e) = part}
       IN  \E ord \in WindowOrders(StartEvents(own)) :
               iso_sessions' = FctSessions(own, ord, default_duration)
    /\ iso_partition' = part
    /\ pairing_pc' = "compared"
    /\ UNCHANGED <<raw_events, default_duration, fct_sessions, dqVars, restVars>>

NextPairing ==
    \/ \E k \in 1..Len(SourceKeys), ty \in 1..Len(EventTypes), t \in Timestamps :
           IngestEvent(k, ty, t)
    \/ \E dflt \in DefaultDurations : RunPairing(dflt)

\* Ingest, then one transform run.
SpecPairing == InitPairing /\ [][NextPairing]_vars

NextIsolation ==
    \/ NextPairing
    \/ \E part \in {PartitionOf(e) : e \in raw_events} : RunPairingIsolated(part)

\* Ingest, one transform run, and a second run over one partition's events.
SpecIsolation == InitPairing /\ [][NextIsolation]_vars

\* ------------------------------------------------- session pairing: claims
Built == pairing_pc = "built"

Starts == StartEvents(raw_events)
Ends == EndEvents(raw_events)

SamePartition(a, b) == a.user_id = b.user_id /\ Trim(a.mentor_id) = Trim(b.mentor_id)

SessionOf(S) == CHOOSE s \in fct_sessions : s.session_id = S.event_id

\* The arrangements of the start events by non-decreasing timestamp.
TimeOrders ==
    LET n == Cardinality(Starts)
    IN  {o \in [1..n -> {S.event_id : S \in Starts}] :
            /\ \A S \in Starts : \E i \in 1..n : o[i] = S.event_id
            /\ \A i, j \in 1..n : \A A, B \in Starts :
                   (i < j /\ o[i] = A.event_id /\ o[j] = B.event_id)
                       => A.timestamp <= B.timestamp}

Before(ord, A, B) ==
    \E i, j \in 1..Len(ord) : i < j /\ ord[i] = A.event_id /\ ord[j] = B.event_id

\* The starts of S's partition that follow S in ord, and the next one of them.
LaterStarts(ord, S) == {X \in Starts : SamePartition(X, S) /\ Before(ord, S, X)}

IsNextStart(ord, S, N) ==
    /\ N \in LaterStarts(ord, S)
    /\ \A X \in LaterStarts(ord, S) : X = N \/ Before(ord, N, X)

\* The qualifying end timestamps of start S: of S's partition, strictly after
\* S and, unless S is the last start of its partition, strictly before the
\* next start.
Qualifying(ord, S) ==
    {E.timestamp : E \in
        {E \in Ends :
            /\ SamePartition(E, S)
            /\ E.timestamp > S.timestamp
            /\ \A N \in Starts : IsNextStart(ord, S, N) => E.timestamp < N.timestamp}}

IsEarliestOf(end, cands) ==
    IF cands = {} THEN end = NULL
    ELSE \E c \in cands : end = {c} /\ \A d \in cands : c <= d

\* C1: once fct_sessions is built, every start S has a session whose end is
\* the earliest session_ended timestamp of S's partition strictly after S and
\* strictly before the start that follows S in the timestamp order of its
\* partition (NULL when there is none); so no session ends at or after a later
\* start of its own partition.
C1_PairingMatchesReference ==
    Built =>
        /\ \E ord \in TimeOrders :
               \A S \in Starts :
                   \E s \in fct_sessions :
                       /\ s.session_id = S.event_id
                       /\ s.started_at = S.timestamp
                       /\ IsEarliestOf(s.ended_at, Qualifying(ord, S))
        /\ \A S, N \in Starts :
               (SamePartition(S, N) /\ N.timestamp > S.timestamp)
                   => \A t \in SessionOf(S).ended_at : t < N.timestamp

\* C1 witness: an end event falls exactly on the next start of S's partition
\* and S's session is left without an end.
C1_Witness ==
    /\ pairing_pc = "built"
    /\ \E S, N \in Starts : \E E \in Ends :
           /\ SamePartition(S, N) /\ SamePartition(S, E)
           /\ S.timestamp < N.timestamp
           /\ E.timestamp = N.timestamp
           /\ SessionOf(S).ended_at = NULL

\* C2: once fct_sessions is built it has exactly one row per session_started
\* event, and the rows' session ids are the start events' ids.
C2_OneSessionPerStart ==
    Built =>
        /\ Cardinality(fct_sessions) = Cardinality(Starts)
        /\ \A S \in Starts :
               Cardinality({s \in fct_sessions : s.session_id = S.event_id}) = 1
        /\ \A s \in fct_sessions : \E S \in Starts : s.session_id = S.event_id

\* C2 witness: one start joins two end events, another start joins none.
C2_Witness ==
    /\ pairing_pc = "built"
    /\ Cardinality(Starts) = 2
    /\ \E s \in fct_sessions : s.ended_at = NULL
    /\ \E S \in Starts :
           Cardinality({E \in Ends : SamePartition(E, S)
                                      /\ E.timestamp > S.timestamp}) = 1
    /\ Cardinality(fct_sessions) = 2

\* C3: for consecutive starts S1 < S2 of one partition, S1's session never
\* ends after S2; when no end event lies between S1 and S2, S1's session has
\* a NULL end, and an end event E after S2 that no other start of the
\* partition precedes gives S2's session an end in (S2, E].
C3_BoundaryIsolation ==
    Built =>
        \A S1, S2 \in Starts :
            (/\ SamePartition(S1, S2)
             /\ S1.timestamp < S2.timestamp
             /\ ~\E X \in Starts : /\ SamePartition(X, S1)
                                   /\ S1.timestamp < X.timestamp
                                   /\ X.timestamp < S2.timestamp)
            => /\ \A t \in SessionOf(S1).ended_at : ~(t > S2.timestamp)
               /\ (~\E E \in Ends : /\ SamePartition(E, S1)
                                    /\ S1.timestamp < E.timestamp
                                    /\ E.timestamp < S2.timestamp)
                  => /\ SessionOf(S1).ended_at = NULL
                     /\ \A E \in Ends :
                            (/\ SamePartition(E, S2)
                             /\ E.timestamp > S2.timestamp
                             /\ ~\E X \in Starts \ {S2} :
                                    /\ SamePartition(X, S2)
                                    /\ S2.timestamp <= X.timestamp
                                    /\ X.timestamp <= E.timestamp)
                            => \E t \in SessionOf(S2).ended_at :
                                   S2.timestamp < t /\ t <= E.timestamp

\* C3 witness: S1 has no end before S2, an end follows S2, S1's session has a
\* NULL end and S2's session has that end.
C3_Witness ==
    /\ pairing_pc = "built"
    /\ \E S1, S2 \in Starts : \E E \in Ends :
           /\ SamePartition(S1, S2) /\ SamePartition(E, S2)
           /\ S1.timestamp < S2.timestamp
           /\ S2.timestamp < E.timestamp
           /\ SessionOf(S1).ended_at = NULL
           /\ SessionOf(S2).ended_at = {E.timestamp}

C5_PartitionIsolation ==
    pairing_pc = "compared"
        => {s \in fct_sessions : <<s.user_id, s.mentor_id>> = iso_partition}
               = iso_sessions

\* C6: every session with a known end ends strictly after its start and has
\* duration_minutes >= 0.
C6_KnownEndAfterStart ==
    Built =>
        \A s \in fct_sessions :
            s.ended_at # NULL
                => /\ \A t \in s.ended_at : t > s.started_at
                   /\ s.duration_minutes >= 0

\* C6 witness: a session whose end follows its start within the same minute,
\* so its duration is 0, in a partition that also has an end event that does
\* not follow the start.
C6_Witness ==
    /\ pairing_pc = "built"
    /\ \E s \in fct_sessions :
           /\ s.ended_at # NULL
           /\ s.duration_minutes = 0
           /\ \E E \in Ends : /\ E.user_id = s.user_id
                              /\ Trim(E.mentor_id) = s.mentor_id
                              /\ E.timestamp <= s.started_at

\* ------------------------------------------------------------- run_checks
Gold == <<"G", "o", "l", "d">>
Silver == <<"S", "i", "l", "v", "e", "r">>
Diamond == <<"D", "i", "a", "m", "o", "n", "d">>
OBrien == <<"O", "'", "B", "r", "i", "e", "n">>

\* 0.05, as a percentage.
DefaultOrphanRatePct == 5

\* duration_minutes values that seeded rows take: negative, ordinary, outlier.
DurationSamples == <<-10, 30, 300>>

\* The non-decreasing maps 1..n -> 1..m: each multiset of n choices once.
Choices(n, m) == {f \in [1..n -> 1..m] : \A i \in 1..(n - 1) : f[i] <= f[i + 1]}

\* fct_sessions rows written directly, as the unit tests seed them.
SeedSession(i, d) ==
    [session_id            |-> i,
     user_id               |-> 1,
     mentor_id             |-> M01,
     started_at            |-> 1,
     ended_at              |-> Some(2),
     duration_minutes      |-> d,
     is_duration_estimated |-> FALSE]

SeededSessionTables ==
    UNION {{{SeedSession(i, DurationSamples[f[i]]) : i \in 1..n} :
               f \in Choices(n, Len(DurationSamples))} : n \in 0..MaxSessionRows}

\* fct_bookings: not materialised (NULL), or its rows' is_orphan_request.
BookingTables ==
    {NULL} \cup
    UNION {{Some([i \in 1..n |-> i <= k]) : k \in 0..n} : n \in 0..MaxBookings}

DimMentorTables ==
    {{},
     {[mentor_id |-> M01, tier |-> Gold]},
     {[mentor_id |-> M01, tier |-> Gold], [mentor_id |-> M02, tier |-> Gold]},
     {[mentor_id |-> M01, tier |-> Gold], [mentor_id |-> M02, tier |-> Silver]},
     {[mentor_id |-> M01, tier |-> Gold], [mentor_id |-> M02, tier |-> OBrien]}}

\* PipelineConfig objects, as far as run_checks reads them.  run_checks is
\* also called with configurations that validate() would reject.
DQConfigs ==
    {[tiers_group_a           |-> a,
      tiers_group_b           |-> b,
      dq_max_duration_minutes |-> th[1],
      dq_max_orphan_rate_pct  |-> th[2]] :
        a \in {<<>>, <<Gold>>, <<Diamond>>, <<OBrien>>, <<Gold, Diamond>>},
        b \in {<<>>, <<Silver>>},
        th \in {<<MAX_DURATION_MINS, DefaultOrphanRatePct>>, <<20, 50>>}}

\* What the engine can answer to a query read with fetchone / with fetchall:
\* normally; execute() returns None; fetchone() returns None; the fetched row
\* holds None; fetchall() returns None; a fetched row is None; duckdb.Error.
FetchOneAnswers == {"ok", "none_result", "none_row", "none_value", "db_error"}
FetchAllAnswers == {"ok", "none_result", "none_rows", "none_row", "db_error"}

\* max_duration_mins = config.dq_max_duration_minutes if config else MAX_DURATION_MINS
MaxDurationMins ==
    IF dq_config = NULL THEN MAX_DURATION_MINS
    ELSE Val(dq_config).dq_max_duration_minutes

\* threshold = config.dq_max_orphan_rate if config else 0.05
OrphanThresholdPct ==
    IF dq_config = NULL THEN DefaultOrphanRatePct
    ELSE Val(dq_config).dq_max_orphan_rate_pct

\* A count of negative durations that is taken only when a config is given.
NegCountConfigOnly ==
    IF dq_config = NULL THEN 0
    ELSE Cardinality({r \in fct_sessions : r.duration_minutes < 0})

\* SELECT COUNT(*) FROM fct_sessions WHERE duration_minutes < 0
NegCount == Cardinality({r \in fct_sessions : r.duration_minutes < 0})

\* A count of outliers against the fallback maximum, whatever the config says.
OutlierCountFallbackOnly ==
    Cardinality({r \in fct_sessions : r.duration_minutes > MAX_DURATION_MINS})

\* SELECT COUNT(*) FROM fct_sessions WHERE duration_minutes > {max_duration_mins}
OutlierCount == Cardinality({r \in fct_sessions : r.duration_minutes > MaxDurationMins})

\* COUNT(*) FROM fct_bookings
TotalBookings(rows) == Len(rows)

\* SUM(CASE WHEN is_orphan_request THEN 1 ELSE 0 END): NULL over no rows.
OrphanSum(rows) ==
    IF Len(rows) = 0 THEN NULL
    ELSE Some(Cardinality({i \in 1..Len(rows) : rows[i]}))

\* t.replace("'", "''")
RECURSIVE EscapeQuotes(_)
EscapeQuotes(t) ==
    IF t = <<>> THEN <<>>
    ELSE IF Head(t) = "'" THEN <<"'", "'">> \o EscapeQuotes(Tail(t))
    ELSE <<Head(t)>> \o EscapeQuotes(Tail(t))

\* f"'{t}'"
QuoteLiteral(t) == <<"'">> \o t \o <<"'">>

\* The value the engine reads from a quoted SQL string literal: '' stands for
\* one quote, a single quote ends the literal; NULL when the text is not one
\* literal (the statement does not parse).
RECURSIVE ScanLiteral(_, _, _)
ScanLiteral(text, i, acc) ==
    IF i > Len(text) THEN NULL
    ELSE IF text[i] # "'" THEN ScanLiteral(text, i + 1, Append(acc, text[i]))
    ELSE IF i < Len(text) /\ text[i + 1] = "'"
         THEN ScanLiteral(text, i + 2, Append(acc, "'"))
    ELSE IF i = Len(text) THEN Some(acc)
    ELSE NULL

ParseLiteral(text) ==
    IF Len(text) < 2 \/ text[1] # "'" THEN NULL ELSE ScanLiteral(text, 2, <<>>)

\* all_configured = list(config.tiers_group_a) + list(config.tiers_group_b)
AllConfigured == Val(dq_config).tiers_group_a \o Val(dq_config).tiers_group_b

\* escaped, then placeholders: the literals of the IN list.
Placeholders(tiers) == [i \in 1..Len(tiers) |-> QuoteLiteral(EscapeQuotes(tiers[i]))]

\* SELECT DISTINCT tier FROM dim_mentors
DistinctTiers == {r.tier : r \in dim_mentors}

\* SELECT DISTINCT tier FROM dim_mentors WHERE tier IN ({placeholders})
ExistingTiers(lits) ==
    {t \in DistinctTiers : \E i \in 1..Len(lits) : ParseLiteral(lits[i]) = Some(t)}

\* A list of missing tiers that stops at the first one.
MissingTiersFirstOnly(tiers, found) ==
    LET Absent(t) == t \notin found
        all == SelectSeq(tiers, Absent)
    IN  IF all = <<>> THEN <<>> ELSE <<Head(all)>>

\* missing_tiers = [t for t in all_configured if t not in existing]
MissingTiers(tiers, found) ==
    LET Absent(t) == t \notin found IN SelectSeq(tiers, Absent)

InitDQ ==
    /\ raw_events = {}
    /\ default_duration = DefaultSessionDuration
    /\ iso_partition = <<>>
    /\ iso_sessions = {}
    /\ pairing_pc = "seeded"
    /\ fct_sessions \in SeededSessionTables
    /\ fct_bookings \in BookingTables
    /\ dim_mentors \in DimMentorTables
    /\ dq_config \in {NULL} \cup {Some(c) : c \in DQConfigs}
    /\ dq_pc = "check1"
    /\ failures = <<>>
    /\ warnings = <<>>
    /\ has_fct_bookings = FALSE
    /\ existing = {}
    /\ dq_error = NULL
    /\ dq_faults = {}
    /\ RestIdle

DQFrame ==
    UNCHANGED <<pairingVars, fct_sessions, fct_bookings, dim_mentors, dq_config, restVars>>

\* The answer the engine gave to query q, noted when it is not the normal one.
Noted(q, answer) ==
    dq_faults' = IF answer = "ok" THEN dq_faults ELSE dq_faults \cup {<<q, answer>>}

\* raise DataQualityError(msg), which run_checks lets through; any other
\* exception leaves as a DataQualityError too.
RaiseDQ(msg) ==
    /\ dq_pc' = "raised"
    /\ dq_error' = Some(msg)
    /\ UNCHANGED <<failures, warnings, has_fct_bookings, existing>>

\* What safe_fetchone and the two tests after it raise on an answer that is
\* not normal.
FetchOneError(check, answer) ==
    CASE answer = "none_result" -> <<check, "DuckDB returned None">>
      [] answer = "none_row"    -> <<check, "empty result">>
      [] answer = "none_value"  -> <<check, "None value">>
      [] answer = "db_error"    -> <<check, "DuckDB error">>

\* Check 1: no negative durations.
DQCheck1(answer) ==
    /\ dq_pc = "check1"
    /\ Noted("check1", answer)
    /\ IF answer # "ok" THEN RaiseDQ(FetchOneError("Check 1", answer))
       ELSE /\ failures' = IF NegCount > 0
                           THEN Append(failures, [check |-> 1, neg_count |-> NegCount])
                           ELSE failures
            /\ dq_pc' = "check4"
            /\ UNCHANGED <<warnings, has_fct_bookings, existing, dq_error>>
    /\ DQFrame

\* Check 4: duration outliers, warn only.
DQCheck4(answer) ==
    /\ dq_pc = "check4"
    /\ Noted("check4", answer)
    /\ IF answer # "ok" THEN RaiseDQ(FetchOneError("Check 4", answer))
       ELSE /\ warnings' = IF OutlierCount > 0
                           THEN Append(warnings, [check |-> 4,
                                                  outlier_count |-> OutlierCount,
                                                  max_duration_mins |-> MaxDurationMins])
                           ELSE warnings
            /\ dq_pc' = "check5_probe"
            /\ UNCHANGED <<failures, has_fct_bookings, existing, dq_error>>
    /\ DQFrame

\* has_fct_bookings = _table_exists(con, "fct_bookings"): bool(row and row[0]).
\* A None from execute() fails on .fetchone(), which leaves as "Unexpected error".
DQCheck5Probe(answer) ==
    /\ dq_pc = "check5_probe"
    /\ Noted("check5_probe", answer)
    /\ IF answer = "none_result" THEN RaiseDQ(<<"Unexpected error", "AttributeError">>)
       ELSE IF answer = "db_error" THEN RaiseDQ(<<"Database error", "DuckDB error">>)
       ELSE /\ has_fct_bookings' = (answer = "ok" /\ fct_bookings # NULL)
            /\ dq_pc' = IF has_fct_bookings' THEN "check5" ELSE "check6"
            /\ UNCHANGED <<failures, warnings, existing, dq_error>>
    /\ DQFrame

\* Check 5: booking orphan rate, when fct_bookings is materialised.
DQCheck5(answer) ==
    /\ dq_pc = "check5"
    /\ Noted("check5", answer)
    /\ LET rows == Val(fct_bookings)
           total == TotalBookings(rows)
           orphans == OrphanSum(rows)
       IN  IF answer # "ok" THEN RaiseDQ(FetchOneError("Check 5", answer))
           ELSE IF orphans = NULL THEN RaiseDQ(<<"Check 5", "None value">>)
           ELSE /\ warnings' =
                       IF total > 0 /\ Val(orphans) * 100 > OrphanThresholdPct * total
                       THEN Append(warnings, [check |-> 5,
                                              orphan_count |-> Val(orphans),
                                              total_bookings |-> total])
                       ELSE warnings
                /\ dq_pc' = "check6"
                /\ UNCHANGED <<failures, has_fct_bookings, existing, dq_error>>
    /\ DQFrame

\* Check 6, first query: the configured tiers found in dim_mentors.  Without a
\* config, or with no tier configured, no query is made and run_checks returns.
DQCheck6(answer) ==
    /\ dq_pc = "check6"
    /\ IF dq_config = NULL \/ AllConfigured = <<>>
       THEN /\ answer = "ok"
            /\ dq_pc' = "returned"
            /\ UNCHANGED <<failures, warnings, has_fct_bookings, existing, dq_error,
                           dq_faults>>
       ELSE /\ Noted("check6_existing", answer)
            /\ LET lits == Placeholders(AllConfigured)
               IN  IF answer = "none_result"
                   THEN RaiseDQ(<<"Check 6: existing tiers", "DuckDB returned None">>)
                   ELSE IF answer = "db_error"
                   THEN RaiseDQ(<<"Check 6: existing tiers", "DuckDB error">>)
                   ELSE IF answer = "none_row"
                   THEN RaiseDQ(<<"Unexpected error", "TypeError">>)
                   ELSE IF \E i \in 1..Len(lits) : ParseLiteral(lits[i]) = NULL
                   THEN RaiseDQ(<<"Database error", "Parser Error">>)
                   ELSE /\ existing' = IF answer = "none_rows" THEN {}
                                       ELSE ExistingTiers(lits)
                        /\ dq_pc' = "check6_available"
                        /\ UNCHANGED <<failures, warnings, has_fct_bookings, dq_error>>
    /\ DQFrame

\* Check 6, second query: every tier of dim_mentors; then the verdict, and
\* run_checks returns (failures, warnings).
DQCheck6Available(answer) ==
    /\ dq_pc = "check6_available"
    /\ Noted("check6_available", answer)
    /\ IF answer = "none_result"
       THEN RaiseDQ(<<"Check 6: available tiers", "DuckDB returned None">>)
       ELSE IF answer = "db_error"
       THEN RaiseDQ(<<"Check 6: available tiers", "DuckDB error">>)
       ELSE IF answer = "none_row"
       THEN RaiseDQ(<<"Unexpected error", "TypeError">>)
       ELSE LET available == IF answer = "none_rows" THEN {} ELSE DistinctTiers
                missing == MissingTiers(AllConfigured, existing)
            IN  /\ failures' = IF missing # <<>>
                               THEN Append(failures, [check |-> 6,
                                                      missing_tiers |-> missing,
                                                      available |-> available])
                               ELSE failures
                /\ dq_pc' = "returned"
                /\ UNCHANGED <<warnings, has_fct_bookings, existing, dq_error>>
    /\ DQFrame

NextDQ ==
    \/ \E answer \in FetchOneAnswers : DQCheck1(answer)
    \/ \E answer \in FetchOneAnswers : DQCheck4(answer)
    \/ \E answer \in FetchOneAnswers : DQCheck5Probe(answer)
    \/ \E answer \in FetchOneAnswers : DQCheck5(answer)
    \/ \E answer \in FetchAllAnswers : DQCheck6(answer)
    \/ \E answer \in FetchAllAnswers : DQCheck6Available(answer)

\* One call of run_checks on seeded tables.
SpecDQ == InitDQ /\ [][NextDQ]_vars

\* ------------------------------------------------------ run_checks: claims
Returned == dq_pc = "returned"
Raised == dq_pc = "raised"

Range(q) == {q[i] : i \in 1..Len(q)}

\* The entries of the failures list that Check n appended.
FailuresOf(n) == {f \in Range(failures) : f.check = n}

HasNegativeDuration == \E r \in fct_sessions : r.duration_minutes < 0

\* The configured tiers that no row of dim_mentors carries.
AbsentConfigured ==
    IF dq_config = NULL THEN {}
    ELSE {t \in Range(AllConfigured) : t \notin DistinctTiers}

\* The answers that are a null where data was expected.
NullAnswers == {"none_result", "none_row", "none_value", "none_rows"}

\* C7: the pair run_checks returns holds a Check 1 failure entry exactly when
\* fct_sessions holds a row with duration_minutes < 0, whether a config was
\* passed or not; the entry carries the number of such rows.
C7_Check1IffNegativeDuration ==
    Returned =>
        /\ (FailuresOf(1) # {}) <=> HasNegativeDuration
        /\ \A f \in FailuresOf(1) :
               f.neg_count = Cardinality({r \in fct_sessions : r.duration_minutes < 0})

\* run_checks, called without a config, has returned a Check 1 failure for a
\* table with a negative duration.
C7_Witness ==
    /\ Returned
    /\ dq_config = NULL
    /\ HasNegativeDuration
    /\ \E r \in fct_sessions : r.duration_minutes >= 0
    /\ FailuresOf(1) # {}

\* When a negative duration and a missing configured tier are both present,
\* the returned failures list holds the Check 1 and the Check 6 entries.
BothViolationsReported ==
    (Returned /\ HasNegativeDuration /\ AbsentConfigured # {}) =>
        (FailuresOf(1) # {} /\ FailuresOf(6) # {})

\* C8: when every query is answered normally run_checks does not raise,
\* whatever the tables hold, and a negative duration together with a missing
\* configured tier gives both the Check 1 and the Check 6 entries.
C8_NeverRaisesOnBusinessViolation ==
    /\ dq_faults = {} => ~Raised
    /\ BothViolationsReported

\* C9: with a config, and the two Check 6 queries answered normally, the pair
\* run_checks returns holds a Check 6 failure exactly when a tier of group A
\* or group B is not among the distinct tiers of dim_mentors; the failure
\* names each missing tier and lists every tier of dim_mentors.  Without a
\* config no Check 6 failure is reported.
C9_Check6IffTierMissing ==
    /\ dq_config = NULL => FailuresOf(6) = {}
    /\ (/\ Returned
        /\ dq_config # NULL
        /\ ~\E f \in dq_faults : f[1] \in {"check6_existing", "check6_available"})
       => /\ (FailuresOf(6) # {}) <=> (AbsentConfigured # {})
          /\ \A f \in FailuresOf(6) :
                /\ Range(f.missing_tiers) = AbsentConfigured
                /\ f.available = DistinctTiers

\* run_checks has returned a Check 6 failure that names two missing tiers,
\* one of each group, next to a configured tier that is present.
C9_Witness ==
    /\ Returned
    /\ dq_faults = {}
    /\ dq_config # NULL
    /\ AbsentConfigured = {Diamond, Silver}
    /\ Gold \in Range(AllConfigured)
    /\ \E f \in FailuresOf(6) :
          /\ f.missing_tiers = <<Diamond, Silver>>
          /\ f.available = {Gold}

\* C10: once the engine has answered a query of run_checks with a null
\* result, a null row or a null value, run_checks has raised
\* DataQualityError: it neither goes on to the next check nor returns.
C10_NullAnswerRaises ==
    (\E f \in dq_faults : f[2] \in NullAnswers) => Raised

\* The entries of the warnings list that Check n appended.
WarningsOf(n) == {w \in Range(warnings) : w.check = n}

HasOutlier == \E r \in fct_sessions : r.duration_minutes > MaxDurationMins

\* C11: Check 4 never appends to failures, and the pair run_checks returns
\* holds a Check 4 warning exactly when a row of fct_sessions has a
\* duration_minutes above the maximum in force (the config's, or the fallback).
C11_OutlierIsWarnOnly ==
    /\ FailuresOf(4) = {}
    /\ Returned => ((WarningsOf(4) # {}) <=> HasOutlier)

\* run_checks has returned a Check 4 warning, and no failure, for a duration
\* that exceeds the configured maximum but not the fallback one.
C11_Witness ==
    /\ Returned
    /\ dq_config # NULL
    /\ \E r \in fct_sessions : r.duration_minutes > MaxDurationMins
    /\ \A r \in fct_sessions : r.duration_minutes <= MAX_DURATION_MINS
    /\ WarningsOf(4) # {}
    /\ failures = <<>>

BookingsAbsentOrEmpty == fct_bookings = NULL \/ fct_bookings = Some(<<>>)

\* orphan_count / total_bookings > threshold, for a table that has rows.
OrphanRateExceeded ==
    LET rows == Val(fct_bookings)
    IN  Cardinality({i \in 1..Len(rows) : rows[i]}) * 100 > OrphanThresholdPct * Len(rows)

\* C12: Check 5 never appends to failures.  With every query answered
\* normally: when fct_bookings does not exist or has no rows the check is
\* passed over (run_checks does not raise, and holds no Check 5 warning), and
\* when it has rows the returned pair holds a Check 5 warning exactly when
\* orphan_count / total_bookings is above the threshold in force.
C12_OrphanRuleSkippedOrWarns ==
    /\ FailuresOf(5) = {}
    /\ (dq_faults = {} /\ BookingsAbsentOrEmpty) => (~Raised /\ WarningsOf(5) = {})
    /\ (dq_faults = {} /\ Returned /\ ~BookingsAbsentOrEmpty)
           => ((WarningsOf(5) # {}) <=> OrphanRateExceeded)

\* ------------------------------------------------------ rebooking analysis
\* dim_mentors of the analysis: two Gold mentors and a Silver one.
AnalysisMentors ==
    {[mentor_id |-> M01, tier |-> Gold],
     [mentor_id |-> M02, tier |-> Silver],
     [mentor_id |-> M03, tier |-> Gold]}

AnalysisMentorIds == <<M01, M02, M03>>
AnalysisUsers == 1..2

\* The (user, mentor) pairs sessions are inserted with: user 1 with each
\* mentor, user 2 with the first Gold mentor.
SessionKeys == << <<1, 1>>, <<1, 2>>, <<1, 3>>, <<2, 1>> >>

\* Start times: the first ticks, and the ticks at and just after one day.
StartTicks == {0, 1, TicksPerDay, TicksPerDay + 1}

\* The two tier groups of the run: TIERS_A = 'Gold', TIERS_B = 'Silver', each
\* under its label.
TierGroups == {[label |-> Gold, tiers |-> {Gold}], [label |-> Silver, tiers |-> {Silver}]}

\* config.rebooking_window_days: None, or a number of days > 0.
RebookingWindows == {NULL, Some(1)}

\* The rank of a session row among the rows a table takes: rows are inserted
\* in non-decreasing rank, session_id being the identity of the row only.
SessionRank(u, m, t, open) ==
    (((u - 1) * Len(AnalysisMentorIds) + (m - 1)) * (TicksPerDay + 2) + t) * 2
        + (IF open THEN 1 ELSE 0)

LastSessionRank ==
    IF fct_sessions = {} THEN 0
    ELSE LET last == CHOOSE r \in fct_sessions : r.session_id = Cardinality(fct_sessions)
             m == CHOOSE i \in 1..Len(AnalysisMentorIds) :
                      AnalysisMentorIds[i] = last.mentor_id
         IN  SessionRank(last.user_id, m, last.started_at, IsNull(last.ended_at))

\* The window test with the boundary left out.
WindowConditionStrict(w, usr_started_at, first_session_at) ==
    IF w = NULL THEN TRUE
    ELSE usr_started_at < first_session_at + Val(w) * TicksPerDay

\* window_condition_sql: TRUE, or
\* usr.started_at <= fs.first_session_at + INTERVAL '{w}' DAY
WindowCondition(w, usr_started_at, first_session_at) ==
    IF w = NULL THEN TRUE
    ELSE usr_started_at <= first_session_at + Val(w) * TicksPerDay

\* The sessions of user u with a mentor whose tier is one of the group's.
UserGroupSessions(u, g) ==
    {r \in fct_sessions :
        /\ r.user_id = u
        /\ \E d \in dim_mentors : d.mentor_id = r.mentor_id /\ d.tier \in g.tiers}

\* first_sessions: the earliest started_at of the user in the group.
FirstSessionAt(u, g) == Val(MinOf({r.started_at : r \in UserGroupSessions(u, g)}))

\* user_sessions_ranked: the started_at of the user's session of rank 2 in
\* the group, NULL when the user has a single session there.  Rows that tie
\* on started_at take ranks in either order, with the same started_at at rank 2.
SecondSessionAt(u, g) ==
    LET rows == UserGroupSessions(u, g)
        Upto(t) == Cardinality({r \in rows : r.started_at <= t})
        Below(t) == Cardinality({r \in rows : r.started_at < t})
    IN  {r.started_at : r \in {x \in rows : Below(x.started_at) <= 1 /\ Upto(x.started_at) >= 2}}

\* CASE WHEN <the session of rank 2> AND {WINDOW_CONDITION}
IsRebooked(u, g, w) ==
    /\ SecondSessionAt(u, g) # NULL
    /\ WindowCondition(w, Val(SecondSessionAt(u, g)), FirstSessionAt(u, g))

\* A total that leaves out the users whose sessions have no known end.
GroupUsersEndedOnly(g) ==
    {u \in AnalysisUsers : \E r \in UserGroupSessions(u, g) : ~IsNull(r.ended_at)}

\* The distinct users with a session in the group.
GroupUsers(g) == {u \in AnalysisUsers : UserGroupSessions(u, g) # {}}

\* The rate, as a number of tenths of a percent, rounded half up.
RatePct10(k, n) == (2000 * k + n) \div (2 * n)

RebookingRow(label, k, n) ==
    [mentor_tier        |-> label,
     total_users        |-> n,
     users_rebooked     |-> k,
     rebooking_rate_pct |-> RatePct10(k, n)]

\* analysis_rebooking.sql: one row per group that has users.
RebookingAnalysis(w) ==
    {RebookingRow(g.label,
                  Cardinality({u \in GroupUsers(g) : IsRebooked(u, g, w)}),
                  Cardinality(GroupUsers(g))) :
        g \in {x \in TierGroups : GroupUsers(x) # {}}}

InitRebooking ==
    /\ raw_events = {}
    /\ default_duration = DefaultSessionDuration
    /\ iso_partition = <<>>
    /\ iso_sessions = {}
    /\ pairing_pc = "seeded"
    /\ fct_sessions = {}
    /\ fct_bookings = NULL
    /\ dim_mentors = AnalysisMentors
    /\ dq_config = NULL
    /\ dq_pc = "idle"
    /\ failures = <<>>
    /\ warnings = <<>>
    /\ has_fct_bookings = FALSE
    /\ existing = {}
    /\ dq_error = NULL
    /\ dq_faults = {}
    /\ rebooking_window = NULL
    /\ rebooking_df = {}
    /\ run_warnings = {}
    /\ analysis_pc = "sessions"
    /\ OuterIdle

\* One more row of fct_sessions: a session of user u with mentor m started at
\* t, its end known or not (then the duration is the estimated one).
InsertSession(u, m, t, open) ==
    /\ analysis_pc = "sessions"
    /\ Cardinality(fct_sessions) < MaxAnalysisSessions
    /\ SessionRank(u, m, t, open) >= LastSessionRank
    /\ fct_sessions' = fct_sessions \cup
           {[session_id            |-> Cardinality(fct_sessions) + 1,
             user_id               |-> u,
             mentor_id             |-> AnalysisMentorIds[m],
             started_at            |-> t,
             ended_at              |-> IF open THEN NULL ELSE Some(t + 1),
             duration_minutes      |-> DefaultSessionDuration,
             is_duration_estimated |-> open]}
    /\ UNCHANGED <<pairingVars, dqVars, analysisVars, outerVars>>

\* Step 4: the rebooking query, run with the window of the config.
RunRebookingAnalysis(w) ==
    /\ analysis_pc = "sessions"
    /\ rebooking_window' = w
    /\ rebooking_df' = RebookingAnalysis(w)
    /\ analysis_pc' = "analysed"
    /\ UNCHANGED <<pairingVars, fct_sessions, dqVars, run_warnings, outerVars>>

\* The sanity warnings of one row of the result: the first test that holds
\* gives the warning, the later ones are not made.
RowWarnings(row) ==
    IF row.total_users < MIN_USERS
    THEN {[mentor_tier |-> row.mentor_tier, kind |-> "directional only"]}
    ELSE IF row.rebooking_rate_pct = 1000
    THEN {[mentor_tier |-> row.mentor_tier, kind |-> "100% rate"]}
    ELSE IF row.rebooking_rate_pct = 0
    THEN {[mentor_tier |-> row.mentor_tier, kind |-> "0% rate"]}
    ELSE {}

\* Step 4, the loop over rebooking_df: each warning is logged and added to
\* the run log, and the run goes on.
SanityWarnings ==
    /\ analysis_pc = "analysed"
    /\ run_warnings' = run_warnings \cup UNION {RowWarnings(row) : row \in rebooking_df}
    /\ analysis_pc' = "warned"
    /\ UNCHANGED <<pairingVars, fct_sessions, dqVars, rebooking_window, rebooking_df,
                   outerVars>>

NextRebooking ==
    \/ \E k \in 1..Len(SessionKeys), t \in StartTicks, open \in BOOLEAN :
           InsertSession(SessionKeys[k][1], SessionKeys[k][2], t, open)
    \/ \E w \in RebookingWindows : RunRebookingAnalysis(w)
    \/ SanityWarnings

\* fct_sessions filled row by row, then one run of the rebooking analysis.
SpecRebooking == InitRebooking /\ [][NextRebooking]_vars

\* (users_rebooked, total_users) of a result row: groups around MIN_USERS
\* users, with no, one, all but one, or all users rebooked.
GroupCounts ==
    UNION {{<<k, n>> : k \in {0, 1, n - 1, n} \cap 0..n} :
               n \in {1, MIN_USERS - 1, MIN_USERS, MIN_USERS + 1}}

\* A result of the rebooking query: at most one row per group.
SeededResults ==
    {a \cup b :
        a \in {{}} \cup {{RebookingRow(Gold, c[1], c[2])} : c \in GroupCounts},
        b \in {{}} \cup {{RebookingRow(Silver, c[1], c[2])} : c \in GroupCounts}}

InitSanity ==
    /\ raw_events = {}
    /\ default_duration = DefaultSessionDuration
    /\ iso_partition = <<>>
    /\ iso_sessions = {}
    /\ pairing_pc = "seeded"
    /\ fct_sessions = {}
    /\ DQIdle
    /\ rebooking_window = NULL
    /\ rebooking_df \in SeededResults
    /\ run_warnings = {}
    /\ analysis_pc = "analysed"
    /\ OuterIdle

NextSanity == SanityWarnings

\* The sanity loop over a given result of the rebooking query.
SpecSanity == InitSanity /\ [][NextSanity]_vars

\* ---------------------------------------------- rebooking analysis: claims
Analysed == analysis_pc = "analysed"

\* The tier of a mentor, read from the dimension.
TierOfMentor(m) == (CHOOSE d \in dim_mentors : d.mentor_id = m).tier

\* The sessions a user has with mentors of the group's tiers.
SessionsIn(u, g) ==
    {r \in fct_sessions : r.user_id = u /\ TierOfMentor(r.mentor_id) \in g.tiers}

\* The user has a first session in the group and another session in the group
\* that starts no later than the first plus the window; any other session when
\* no window is configured.
HasSecondInWindow(u, g) ==
    \E r1, r2 \in SessionsIn(u, g) :
        /\ r1 # r2
        /\ \A r \in SessionsIn(u, g) : r1.started_at <= r.started_at
        /\ \/ rebooking_window = NULL
           \/ r2.started_at <= r1.started_at + Val(rebooking_window) * TicksPerDay

\* The row of the result for the group, as a set: empty when there is none.
RowsOf(g) == {row \in rebooking_df : row.mentor_tier = g.label}

\* C13: in the result of the analysis, users_rebooked of a group is the number
\* of users with a second session in that group's tiers starting on or before
\* their first session there plus the window (any second session when no window
\* is configured); sessions with the other group's mentors play no part.
C13_RebookedWithinWindow ==
    Analysed =>
        \A g \in TierGroups :
            /\ Cardinality(RowsOf(g)) <= 1
            /\ (RowsOf(g) = {}) <=> (\A u \in AnalysisUsers : SessionsIn(u, g) = {})
            /\ \A row \in RowsOf(g) :
                   row.users_rebooked =
                       Cardinality({u \in AnalysisUsers : HasSecondInWindow(u, g)})

\* The analysis has run with a window of one day over a user whose second Gold
\* session, with another Gold mentor, starts exactly one day after the first,
\* a Silver session lying between the two.
C13_Witness ==
    /\ Analysed
    /\ rebooking_window = Some(1)
    /\ \E r1, r2, r3 \in fct_sessions :
          /\ r1.user_id = 1 /\ r2.user_id = 1 /\ r3.user_id = 1
          /\ r1.mentor_id = M01 /\ r1.started_at = 0
          /\ r2.mentor_id = M02 /\ r2.started_at = 1
          /\ r3.mentor_id = M03 /\ r3.started_at = TicksPerDay
    /\ \E row \in rebooking_df :
          row.mentor_tier = Gold /\ row.total_users = 1 /\ row.users_rebooked = 1
    /\ \E row \in rebooking_df :
          row.mentor_tier = Silver /\ row.total_users = 1 /\ row.users_rebooked = 0

\* The users whose only session in the group has no known end.
LoneOpenUsers(g) ==
    {u \in AnalysisUsers :
        /\ Cardinality(SessionsIn(u, g)) = 1
        /\ \A r \in SessionsIn(u, g) : IsNull(r.ended_at) /\ r.is_duration_estimated}

\* C14: for every window setting, total_users of a group counts each user with
\* a session in the group, whether or not the end of any session is known, and
\* a user whose only session there has no known end is not among the rebooked.
C14_OpenSessionCountedNotRebooked ==
    Analysed =>
        \A g \in TierGroups :
            /\ \A u \in LoneOpenUsers(g) : ~IsRebooked(u, g, rebooking_window)
            /\ \A row \in RowsOf(g) :
                  /\ row.total_users =
                         Cardinality({u \in AnalysisUsers : SessionsIn(u, g) # {}})
                  /\ row.users_rebooked <= row.total_users - Cardinality(LoneOpenUsers(g))
            /\ LoneOpenUsers(g) # {} => RowsOf(g) # {}

\* The analysis has run over a Gold group of two users: one with two sessions,
\* one whose only session has no known end.
C14_Witness ==
    /\ Analysed
    /\ rebooking_window # NULL
    /\ \E g \in TierGroups :
          /\ g.label = Gold
          /\ 2 \in LoneOpenUsers(g)
          /\ Cardinality(SessionsIn(1, g)) = 2
          /\ \E row \in RowsOf(g) : row.total_users = 2 /\ row.users_rebooked = 1

\* --------------------------------------------------- sanity warnings: claims
Warned == analysis_pc = "warned"

HasWarning(row, kinds) ==
    \E w \in run_warnings : w.mentor_tier = row.mentor_tier /\ w.kind \in kinds

\* C15: after the sanity loop, every row of the result has the
\* directional-only warning exactly when its group has fewer than MIN_USERS
\* users, and a manual-verification warning exactly when its rate is 0% or
\* 100%, whatever the size of the group.
C15_SanityWarningsIndependent ==
    Warned =>
        \A row \in rebooking_df :
            /\ HasWarning(row, {"directional only"}) <=> row.total_users < MIN_USERS
            /\ HasWarning(row, {"0% rate", "100% rate"})
                   <=> (row.users_rebooked = 0 \/ row.users_rebooked = row.total_users)

\* --------------------------------------------------------------- _wilson_ci
\* Floating-point numbers are kept as whole numbers of 1/Scale.  An operation
\* whose exact result is not such a number yields one of its two neighbours:
\* every operator below gives the set of values the operation may return.
Near(num, den) == {num \div den, (num + den - 1) \div den}

FMul(a, b) == Near(a * b, Scale)
FDiv(a, b) == Near(a * Scale, b)
FDivInt(a, m) == Near(a, m)

\* math.sqrt
FSqrt(a) ==
    LET x == a * Scale
        r == CHOOSE c \in 0..(2 * Scale) : c * c <= x /\ (c + 1) * (c + 1) > x
    IN  IF r * r = x THEN {r} ELSE {r, r + 1}

\* z = 1.96, and z ** 2
Z == (196 * Scale) \div 100
Z2 == (38416 * Scale) \div 10000

Max(a, b) == IF a >= b THEN a ELSE b
Min(a, b) == IF a <= b THEN a ELSE b

\* min(100.0, centre + margin) * 100
UpperPct(centre, margin) == Min(100 * Scale, centre + margin) * 100

\* max(0.0, centre - margin) * 100
LowerPct(centre, margin) == Max(0, centre - margin) * 100

\* The locals centre and margin of _wilson_ci(k, n) for n > 0, as the pairs
\* <<centre, margin>> the arithmetic may produce.
CentreMargin(k, n) ==
    UNION {UNION {
        {<<centre, margin>> :
            centre \in UNION {FDiv(p + h, denom) : h \in FDivInt(Z2, 2 * n)},
            margin \in UNION {UNION {UNION {UNION {UNION {
                FDiv(zr, denom) :
                    zr \in FMul(Z, root)} :
                    root \in FSqrt(qn + f)} :
                    f \in FDivInt(Z2, 4 * n * n)} :
                    qn \in FDivInt(q, n)} :
                    q \in FMul(p, Scale - p)}} :
            denom \in {Scale + d : d \in FDivInt(Z2, n)}} :
            p \in FDivInt(k * Scale, n)}

\* _wilson_ci(k, n): the triples <<centre * 100, lower, upper>> it may compute,
\* the last two being the pair it returns.
WilsonCI(k, n) ==
    IF n = 0 THEN {<<0, 0, 0>>}
    ELSE {<<cm[1] * 100, LowerPct(cm[1], cm[2]), UpperPct(cm[1], cm[2])>> :
             cm \in CentreMargin(k, n)}

InitWilson ==
    /\ raw_events = {}
    /\ default_duration = DefaultSessionDuration
    /\ iso_partition = <<>>
    /\ iso_sessions = {}
    /\ pairing_pc = "seeded"
    /\ fct_sessions = {}
    /\ DQIdle
    /\ AnalysisIdle
    /\ WilsonIdle
    /\ GuardIdle
    /\ LateIdle

\* One call _wilson_ci(k, n) with 0 <= k <= n.
CallWilsonCI(k, n) ==
    /\ wilson_args' = <<k, n>>
    /\ \E res \in WilsonCI(k, n) :
           /\ wilson_centre' = res[1]
           /\ wilson_ci' = <<res[2], res[3]>>
    /\ UNCHANGED <<pairingVars, fct_sessions, dqVars, analysisVars, guardVars, lateVars>>

NextWilson == \E n \in 0..MaxN, k \in 0..MaxN : k <= n /\ CallWilsonCI(k, n)

\* Calls of _wilson_ci, one after the other.
SpecWilson == InitWilson /\ [][NextWilson]_vars

\* ------------------------------------------------------- _wilson_ci: claims
\* C16: _wilson_ci(k, n) returns (0.0, 0.0) when n = 0, and for 0 <= k <= n
\* with n > 0 a pair of percentages with
\* 0.0 <= lower <= centre * 100 <= upper <= 100.0.
C16_WilsonBounds ==
    wilson_args # <<>> =>
        IF wilson_args[2] = 0 THEN wilson_ci = <<0, 0>>
        ELSE /\ 0 <= wilson_ci[1]
             /\ wilson_ci[1] <= wilson_centre
             /\ wilson_centre <= wilson_ci[2]
             /\ wilson_ci[2] <= 100 * Scale

\* ---------------------------------------------------------------- StepTimer
\* config.step_timeout_seconds: negative, zero, or a number of seconds.
StepTimeouts == {-1, 0, 300}

\* timeout = config.step_timeout_seconds if config.step_timeout_seconds > 0 else None
TimeoutOf(seconds) == IF seconds > 0 THEN Some(seconds) ELSE NULL

\* A guard that takes every timeout for a real one.
TimeoutSetAlways(t) == TRUE

\* `if self._timeout`: neither None nor 0.
TimeoutSet(t) == t # NULL /\ Val(t) # 0

\* The exceptions with which the guarded block ends by itself.
BlockErrors == {"RuntimeError", "DataQualityError"}

Logged(event) == guard_log' = Append(guard_log, event)

GuardFrame ==
    UNCHANGED <<pairingVars, fct_sessions, dqVars, analysisVars, wilsonVars, lateVars>>

InitGuard ==
    /\ raw_events = {}
    /\ default_duration = DefaultSessionDuration
    /\ iso_partition = <<>>
    /\ iso_sessions = {}
    /\ pairing_pc = "seeded"
    /\ fct_sessions = {}
    /\ DQIdle
    /\ AnalysisIdle
    /\ WilsonIdle
    /\ LateIdle
    /\ step_timeout \in StepTimeouts
    /\ guard_timeout = NULL
    /\ main_pc = "start"
    /\ block_exc = NULL
    /\ surfaced = NULL
    /\ done = FALSE
    /\ watcher_pc = "none"
    /\ pending_exc = FALSE
    /\ process = "alive"
    /\ run_status = NULL
    /\ guard_log = <<>>

\* with StepTimer(step_label, timeout_seconds=t): __init__ and __enter__.
\* The watcher thread is made and started when the timeout is set.
Enter(t) ==
    /\ process = "alive" /\ main_pc = "start"
    /\ guard_timeout' = t
    /\ watcher_pc' = IF TimeoutSet(guard_timeout') THEN "started" ELSE "none"
    /\ guard_log' = IF TimeoutSet(guard_timeout')
                    THEN guard_log \o <<"enter", "watcher started">>
                    ELSE Append(guard_log, "enter")
    /\ main_pc' = "block"
    /\ UNCHANGED <<step_timeout, block_exc, surfaced, done, pending_exc, process,
                   run_status>>
    /\ GuardFrame

\* __exit__, up to the join: self._done.set().  Without a watcher there is
\* nothing to join.
LeaveBlock(exc, events) ==
    /\ block_exc' = exc
    /\ done' = TRUE
    /\ guard_log' = guard_log \o events \o <<"done set">>
    /\ main_pc' = "join"

\* The guarded block runs to its end: the run is logged as a success
\* (run_log.finish inside the block), and __exit__ begins.
BlockCompletes ==
    /\ process = "alive" /\ main_pc = "block"
    /\ run_status' = Some("success")
    /\ LeaveBlock(NULL, <<"block completed">>)
    /\ UNCHANGED <<step_timeout, guard_timeout, surfaced, watcher_pc, pending_exc, process>>
    /\ GuardFrame

\* The guarded block ends with an exception of its own.
BlockRaises(err) ==
    /\ process = "alive" /\ main_pc = "block"
    /\ LeaveBlock(Some(err), <<"block raised">>)
    /\ UNCHANGED <<step_timeout, guard_timeout, surfaced, watcher_pc, pending_exc, process,
                   run_status>>
    /\ GuardFrame

\* The pending PipelineTimeoutError is raised in the main thread while it runs
\* the block.  It leaves the block as it is, or a handler inside the block that
\* catches Exception (run_checks') turns it into a DataQualityError.
DeliverInBlock(wrapped) ==
    /\ process = "alive" /\ main_pc = "block" /\ pending_exc
    /\ pending_exc' = FALSE
    /\ LeaveBlock(Some(IF wrapped THEN "DataQualityError" ELSE "PipelineTimeoutError"),
                  <<"delivered in block">>)
    /\ UNCHANGED <<step_timeout, guard_timeout, surfaced, watcher_pc, process, run_status>>
    /\ GuardFrame

\* The pending PipelineTimeoutError is raised in the main thread while it is
\* in __exit__, past the set(): it leaves __exit__ in place of what the block
\* ended with.
DeliverInExit ==
    /\ process = "alive" /\ main_pc = "join" /\ pending_exc
    /\ pending_exc' = FALSE
    /\ block_exc' = Some("PipelineTimeoutError")
    /\ Logged("delivered in exit")
    /\ main_pc' = "handler"
    /\ UNCHANGED <<step_timeout, guard_timeout, surfaced, done, watcher_pc, process,
                   run_status>>
    /\ GuardFrame

\* The pending PipelineTimeoutError is raised in the main thread once __exit__
\* has returned, while main runs its finally clause or in main's caller: no
\* except clause of main is in force there, so the run stays logged as it was
\* and the exception goes to the caller.
DeliverAfterExit ==
    /\ process = "alive" /\ main_pc = "returned" /\ pending_exc
    /\ pending_exc' = FALSE
    /\ surfaced' = Some("PipelineTimeoutError")
    /\ Logged("delivered after exit")
    /\ main_pc' = "raised"
    /\ UNCHANGED <<step_timeout, guard_timeout, block_exc, done, watcher_pc, process,
                   run_status>>
    /\ GuardFrame

\* __exit__ from the join on: the join returns (the watcher has ended, or 2
\* seconds have passed), a PipelineTimeoutError is raised anew, anything else
\* is let through.
ExitJoined ==
    /\ process = "alive" /\ main_pc = "join"
    /\ main_pc' = IF block_exc = NULL THEN "returned" ELSE "handler"
    /\ UNCHANGED <<step_timeout, guard_timeout, block_exc, surfaced, done, watcher_pc,
                   pending_exc, process, run_status, guard_log>>
    /\ GuardFrame

\* Except clauses that log every exception as a failure.
HandlerAlwaysFailed ==
    /\ process = "alive" /\ main_pc = "handler"
    /\ run_status' = Some("failed")
    /\ surfaced' = block_exc
    /\ main_pc' = "raised"
    /\ UNCHANGED <<step_timeout, guard_timeout, block_exc, done, watcher_pc, pending_exc,
                   process, guard_log>>
    /\ GuardFrame

\* main's except clauses: the run is logged with status "timeout" for a
\* PipelineTimeoutError, "failed" for anything else, and the exception is
\* raised again.
Handler ==
    /\ process = "alive" /\ main_pc = "handler"
    /\ run_status' = Some(IF block_exc = Some("PipelineTimeoutError")
                          THEN "timeout" ELSE "failed")
    /\ surfaced' = block_exc
    /\ main_pc' = "raised"
    /\ UNCHANGED <<step_timeout, guard_timeout, block_exc, done, watcher_pc, pending_exc,
                   process, guard_log>>
    /\ GuardFrame

\* The process ends after main: the daemon watcher ends with it.
ProcessExits ==
    /\ process = "alive" /\ main_pc \in {"returned", "raised"}
    /\ process' = "exited"
    /\ UNCHANGED <<step_timeout, guard_timeout, main_pc, block_exc, surfaced, done,
                   watcher_pc, pending_exc, run_status, guard_log>>
    /\ GuardFrame

WatcherFrame ==
    /\ UNCHANGED <<step_timeout, guard_timeout, main_pc, block_exc, surfaced, done,
                   run_status>>
    /\ GuardFrame

\* _watchdog: `if not self._timeout: return`, then the wait for the deadline.
WatcherBegins ==
    /\ process = "alive" /\ watcher_pc = "started"
    /\ watcher_pc' = IF TimeoutSet(guard_timeout) THEN "wait_deadline" ELSE "returned"
    /\ UNCHANGED <<pending_exc, process, guard_log>>
    /\ WatcherFrame

\* self._done.wait(...) returns True: the flag is set, the watcher returns.
WatcherStandsDown ==
    /\ process = "alive" /\ watcher_pc \in {"wait_deadline", "wait_grace"} /\ done
    /\ watcher_pc' = "returned"
    /\ Logged("watcher stood down")
    /\ UNCHANGED <<pending_exc, process>>
    /\ WatcherFrame

\* A deadline wait that times out whether or not the flag is set.
DeadlineElapsesAnyway ==
    /\ process = "alive" /\ watcher_pc = "wait_deadline"
    /\ watcher_pc' = "soft_kill"
    /\ Logged("deadline elapsed")
    /\ UNCHANGED <<pending_exc, process>>
    /\ WatcherFrame

\* self._done.wait(self._timeout) times out: the flag is not set.
DeadlineElapses ==
    /\ process = "alive" /\ watcher_pc = "wait_deadline" /\ ~done
    /\ watcher_pc' = "soft_kill"
    /\ Logged("deadline elapsed")
    /\ UNCHANGED <<pending_exc, process>>
    /\ WatcherFrame

\* A watcher that returns once it has sent the soft kill.
SoftKillOnly ==
    /\ process = "alive" /\ watcher_pc = "soft_kill"
    /\ pending_exc' = TRUE
    /\ watcher_pc' = "returned"
    /\ Logged("soft kill sent")
    /\ UNCHANGED process
    /\ WatcherFrame

\* Soft kill: PyThreadState_SetAsyncExc(main thread, PipelineTimeoutError),
\* then the wait for the grace period.
SendSoftKill ==
    /\ process = "alive" /\ watcher_pc = "soft_kill"
    /\ pending_exc' = TRUE
    /\ watcher_pc' = "wait_grace"
    /\ Logged("soft kill sent")
    /\ UNCHANGED process
    /\ WatcherFrame

\* A grace wait that times out whether or not the flag is set.
GraceElapsesAnyway ==
    /\ process = "alive" /\ watcher_pc = "wait_grace"
    /\ watcher_pc' = "hard_kill"
    /\ Logged("grace elapsed")
    /\ UNCHANGED <<pending_exc, process>>
    /\ WatcherFrame

\* self._done.wait(self.GRACE_SECONDS) times out: the flag is not set.
GraceElapses ==
    /\ process = "alive" /\ watcher_pc = "wait_grace" /\ ~done
    /\ watcher_pc' = "hard_kill"
    /\ Logged("grace elapsed")
    /\ UNCHANGED <<pending_exc, process>>
    /\ WatcherFrame

\* Hard kill: os._exit(1).
HardKill ==
    /\ process = "alive" /\ watcher_pc = "hard_kill"
    /\ process' = "killed"
    /\ Logged("hard kill")
    /\ UNCHANGED <<pending_exc, watcher_pc>>
    /\ WatcherFrame

\* main passes TimeoutOf(step_timeout); a caller may also pass 0 itself.
NextGuard ==
    \/ \E t \in {TimeoutOf(step_timeout), Some(0)} : Enter(t)
    \/ BlockCompletes
    \/ \E err \in BlockErrors : BlockRaises(err)
    \/ \E wrapped \in BOOLEAN : DeliverInBlock(wrapped)
    \/ DeliverInExit
    \/ DeliverAfterExit
    \/ ExitJoined
    \/ Handler
    \/ ProcessExits
    \/ WatcherBegins
    \/ WatcherStandsDown
    \/ DeadlineElapses
    \/ SendSoftKill
    \/ GraceElapses
    \/ HardKill

\* One run of main's guarded block, the main thread and the watcher
\* interleaved.
SpecGuard == InitGuard /\ [][NextGuard]_vars

\* The watcher is a started thread of a live process, so each of its steps is
\* taken once it stays possible: it begins, its timed waits run out while the
\* flag stays unset, and the statements after a wait are executed.
WatcherFairness ==
    /\ WF_vars(WatcherBegins)
    /\ WF_vars(DeadlineElapses)
    /\ WF_vars(SendSoftKill)
    /\ WF_vars(GraceElapses)
    /\ WF_vars(HardKill)

SpecGuardLive == SpecGuard /\ WatcherFairness

\* -------------------------------------------------------- StepTimer: claims
\* The position of an event in guard_log, 0 when it has not happened.
Pos(event) ==
    IF \E i \in 1..Len(guard_log) : guard_log[i] = event
    THEN CHOOSE i \in 1..Len(guard_log) : guard_log[i] = event
    ELSE 0

Happened(event) == Pos(event) > 0

\* a happened, and b did not happen before it.
NotPrecededBy(a, b) == Happened(a) /\ ~(Happened(b) /\ Pos(b) < Pos(a))

\* C17: when the guarded block has ended and __exit__ has set the completion
\* flag before the deadline wait timed out, the watcher sends no soft kill and
\* makes no hard kill: it stands down or is still to see the flag.
C17_CompletionBeforeDeadlineStandsDown ==
    NotPrecededBy("done set", "deadline elapsed") =>
        /\ ~Happened("deadline elapsed")
        /\ ~Happened("soft kill sent")
        /\ ~Happened("hard kill")
        /\ ~pending_exc
        /\ process # "killed"
        /\ watcher_pc \in {"none", "started", "wait_deadline", "returned"}

\* The block completed under a running watcher, which then stood down, and
\* main returned.
C17_Witness ==
    /\ Happened("watcher started")
    /\ Happened("block completed")
    /\ Happened("watcher stood down")
    /\ watcher_pc = "returned"
    /\ main_pc = "returned"
    /\ run_status = Some("success")

\* C18 as stated: the hard kill is made only after the deadline elapsed, the
\* soft kill was sent and the grace period elapsed, in that order, and never
\* once the completion flag is set.
C18_HardKillNeverAfterDone ==
    Happened("hard kill") =>
        /\ 0 < Pos("deadline elapsed")
        /\ Pos("deadline elapsed") < Pos("soft kill sent")
        /\ Pos("soft kill sent") < Pos("grace elapsed")
        /\ Pos("grace elapsed") < Pos("hard kill")
        /\ ~done

\* C18, amended: the hard kill is made only after the deadline elapsed, the
\* soft kill was sent and the grace period elapsed, in that order, the
\* completion flag being unset when the grace wait timed out; the flag may be
\* set between that time-out and the kill.
C18_HardKillOnlyAfterGrace ==
    Happened("hard kill") =>
        /\ 0 < Pos("deadline elapsed")
        /\ Pos("deadline elapsed") < Pos("soft kill sent")
        /\ Pos("soft kill sent") < Pos("grace elapsed")
        /\ Pos("grace elapsed") < Pos("hard kill")
        /\ NotPrecededBy("grace elapsed", "done set")

\* The process was killed while the main thread was still in the block, the
\* soft kill never delivered.
C18_Witness ==
    /\ process = "killed"
    /\ main_pc = "block"
    /\ pending_exc
    /\ ~done

\* C19: with a timeout of None or 0, entering the guard starts no watcher, and
\* no soft kill is sent and no hard kill made, wherever the block is.
C19_NoTimeoutNoWatcher ==
    (main_pc \notin {"idle", "start"} /\ (guard_timeout = NULL \/ guard_timeout = Some(0))) =>
        /\ watcher_pc = "none"
        /\ ~Happened("watcher started")
        /\ ~Happened("soft kill sent")
        /\ ~Happened("hard kill")
        /\ ~pending_exc
        /\ process # "killed"

\* main ran the block under a step_timeout_seconds of 0 and returned, no
\* watcher having been started.
C19_Witness ==
    /\ step_timeout = 0
    /\ guard_timeout = NULL
    /\ main_pc = "returned"
    /\ watcher_pc = "none"
    /\ guard_log = <<"enter", "block completed", "done set">>

C27_UnresponsiveBlockIsKilled ==
    ([]~done) =>
        [](Happened("deadline elapsed") =>
               <>(/\ Happened("soft kill sent")
                  /\ Pos("soft kill sent") < Pos("grace elapsed")
                  /\ Pos("grace elapsed") < Pos("hard kill")
                  /\ process = "killed"))

\* The whole escalation has run against a block that never reported
\* completion.
C27_Witness ==
    /\ guard_log = <<"enter", "watcher started", "deadline elapsed", "soft kill sent",
                     "grace elapsed", "hard kill">>
    /\ ~done
    /\ main_pc = "block"
    /\ process = "killed"

\* C28: in every interleaving the soft kill is never sent once __exit__ has
\* set the completion flag, and no PipelineTimeoutError is raised in the main
\* thread outside the guarded block.
C28_NoSoftKillAfterDone ==
    /\ Happened("soft kill sent") => NotPrecededBy("soft kill sent", "done set")
    /\ ~Happened("delivered in exit")
    /\ ~Happened("delivered after exit")

\* ------------------------------------------------------------ main: phases
\* PipelineConfig: the fields validate() and the phases read.  Tier groups are
\* lists; the orphan rate is counted in percent.
TierLists == {<<>>, <<Gold>>, <<Silver>>, <<Silver, Gold>>}

RunConfigs ==
    {[tiers_group_a                    |-> a,
      tiers_group_b                    |-> b,
      default_session_duration_minutes |-> d,
      rebooking_window_days            |-> w,
      dq_max_duration_minutes          |-> md,
      dq_max_orphan_rate               |-> mo] :
        a \in TierLists \ {<<Silver>>}, b \in TierLists \ {<<Gold>>},
        d \in {0, DefaultSessionDuration},
        w \in {NULL, Some(-5), Some(DefaultWindowDays)},
        md \in {0, MAX_DURATION_MINS},
        mo \in {0, DefaultOrphanRatePct}}

Modes == {"full", "ingest-only", "transform-only", "analysis-only"}

ListItems(q) == {q[i] : i \in 1..Len(q)}

\* A validate() that does not compare the two groups.
OverlapUnchecked(c) == {}

\* overlap = set(self.tiers_group_a) & set(self.tiers_group_b)
Overlap(c) == ListItems(c.tiers_group_a) \cap ListItems(c.tiers_group_b)

\* config.validate(): it raises ValueError, or returns.
ValidateRaises(c) ==
    \/ c.tiers_group_a = <<>>
    \/ c.tiers_group_b = <<>>
    \/ Overlap(c) # {}
    \/ c.default_session_duration_minutes <= 0
    \/ c.rebooking_window_days # NULL /\ Val(c.rebooking_window_days) <= 0

\* The dbt commands main spawns, in order.
DbtCommands == <<"dbt snapshot", "dbt run", "dbt test">>

OrchFrame ==
    UNCHANGED <<pairingVars, fct_sessions, dqVars, analysisVars, wilsonVars, guardVars,
                ingestVars>>

Did(event) == orch_log' = Append(orch_log, event)

InitOrch ==
    /\ raw_events = {}
    /\ default_duration = DefaultSessionDuration
    /\ iso_partition = <<>>
    /\ iso_sessions = {}
    /\ pairing_pc = "seeded"
    /\ fct_sessions = {}
    /\ DQIdle
    /\ AnalysisIdle
    /\ WilsonIdle
    /\ GuardIdle
    /\ IngestIdle
    /\ config \in {Some(c) : c \in RunConfigs}
    /\ mode \in Modes
    /\ orch_pc = "start"
    /\ orch_exc = NULL
    /\ connections = {}
    /\ orch_log = <<>>

\* config.validate(): a ValueError leaves main at once.
Validate ==
    /\ orch_pc = "start"
    /\ IF ValidateRaises(Val(config))
       THEN /\ orch_pc' = "raised"
            /\ orch_exc' = Some("ValueError")
       ELSE /\ orch_pc' = "validated"
            /\ UNCHANGED orch_exc
    /\ UNCHANGED <<config, mode, connections, orch_log>>
    /\ OrchFrame

\* run_log = PipelineRunLog(config); run_log.start()
StartRunLog ==
    /\ orch_pc = "validated"
    /\ Did("run log started")
    /\ orch_pc' = "connect"
    /\ UNCHANGED <<config, mode, orch_exc, connections>>
    /\ OrchFrame

\* con = duckdb.connect(str(DB_PATH)), and the guarded block is entered.
Connect ==
    /\ orch_pc = "connect"
    /\ connections' = connections \cup {"main"}
    /\ Did("connected")
    /\ orch_pc' = "step 1"
    /\ UNCHANGED <<config, mode, orch_exc>>
    /\ OrchFrame

\* Step 1 in the modes that ingest: ingest_main() is called and opens its own
\* connection.
IngestBegins ==
    /\ orch_pc = "step 1" /\ mode \in {"full", "ingest-only"}
    /\ connections' = connections \cup {"ingest"}
    /\ Did("ingest")
    /\ orch_pc' = "ingesting"
    /\ UNCHANGED <<config, mode, orch_exc>>
    /\ OrchFrame

\* Step 1 in the other modes: nothing is ingested.
IngestSkipped ==
    /\ orch_pc = "step 1" /\ mode \notin {"full", "ingest-only"}
    /\ orch_pc' = "step 2"
    /\ UNCHANGED <<config, mode, orch_exc, connections, orch_log>>
    /\ OrchFrame

\* ingest_main() ends, closing its connection: it returns or an ingest
\* function has raised.  In mode ingest-only the run is finished here.
IngestEnds(ok) ==
    /\ orch_pc = "ingesting"
    /\ connections' = connections \ {"ingest"}
    /\ IF ~ok
       THEN /\ orch_exc' = Some("ValueError")
            /\ orch_pc' = "except"
            /\ UNCHANGED orch_log
       ELSE /\ UNCHANGED orch_exc
            /\ UNCHANGED orch_log
            /\ orch_pc' = IF mode = "ingest-only" THEN "finally" ELSE "step 2"
    /\ UNCHANGED <<config, mode>>
    /\ OrchFrame

\* Steps 2 and 3 in the modes that transform: con.close(), con = None, before
\* the first dbt subprocess.
TransformBegins ==
    /\ orch_pc = "step 2" /\ mode \in {"full", "transform-only"}
    /\ connections' = connections \ {"main"}
    /\ Did("transform")
    /\ orch_pc' = "dbt snapshot"
    /\ UNCHANGED <<config, mode, orch_exc>>
    /\ OrchFrame

\* Steps 2 and 3 in mode analysis-only: skipped, dq_passed = True.
TransformSkipped ==
    /\ orch_pc = "step 2" /\ mode = "analysis-only"
    /\ orch_pc' = "step 4"
    /\ UNCHANGED <<config, mode, orch_exc, connections, orch_log>>
    /\ OrchFrame

\* subprocess.run(dbt_cmd): the dbt process starts and opens the warehouse.
DbtStarts ==
    /\ \E i \in 1..Len(DbtCommands) : orch_pc = DbtCommands[i]
    /\ "dbt" \notin connections
    /\ connections' = connections \cup {"dbt"}
    /\ UNCHANGED <<config, mode, orch_pc, orch_exc, orch_log>>
    /\ OrchFrame

\* The dbt process ends with return code rc, its connection gone with it.
\* After dbt run main takes a connection to log the row counts; after dbt test
\* it takes the connection run_checks is given.
DbtEnds(rc) ==
    /\ \E i \in 1..Len(DbtCommands) : orch_pc = DbtCommands[i]
    /\ "dbt" \in connections
    /\ connections' = (connections \ {"dbt"}) \cup
                          IF rc = 0 /\ orch_pc # "dbt snapshot" THEN {"main"} ELSE {}
    /\ IF rc # 0
       THEN /\ orch_exc' = Some("RuntimeError")
            /\ orch_pc' = "except"
       ELSE /\ UNCHANGED orch_exc
            /\ orch_pc' = CASE orch_pc = "dbt snapshot" -> "dbt run"
                            [] orch_pc = "dbt run" -> "row counts"
                            [] orch_pc = "dbt test" -> "run_checks"
    /\ UNCHANGED <<config, mode, orch_log>>
    /\ OrchFrame

\* The row counts of the models are logged, or a count raises; Step 3 begins
\* with con.close(), con = None.
RowCounts(ok) ==
    /\ orch_pc = "row counts"
    /\ IF ok
       THEN /\ connections' = connections \ {"main"}
            /\ UNCHANGED orch_exc
            /\ orch_pc' = "dbt test"
       ELSE /\ UNCHANGED connections
            /\ orch_exc' = Some("Error")
            /\ orch_pc' = "except"
    /\ UNCHANGED <<config, mode, orch_log>>
    /\ OrchFrame

\* failures, dq_warnings = run_checks(con, config): it returns no failure or
\* some, or raises DataQualityError.  Failures halt the run; in mode
\* transform-only a pass finishes it.
RunChecks(outcome) ==
    /\ orch_pc = "run_checks"
    /\ Did(outcome)
    /\ CASE outcome = "run_checks passed" ->
               /\ UNCHANGED orch_exc
               /\ orch_pc' = IF mode = "transform-only" THEN "finally" ELSE "step 4"
         [] outcome = "run_checks failed" ->
               /\ orch_exc' = Some("RuntimeError")
               /\ orch_pc' = "except"
         [] outcome = "run_checks raised" ->
               /\ orch_exc' = Some("DataQualityError")
               /\ orch_pc' = "except"
    /\ UNCHANGED <<config, mode, connections>>
    /\ OrchFrame

\* Step 4: the connection is closed if there is one and taken anew, then the
\* analyses are executed and the run is finished, or a query raises.
Analyse(ok) ==
    /\ orch_pc = "step 4"
    /\ connections' = connections \cup {"main"}
    /\ Did("analysis")
    /\ IF ok
       THEN UNCHANGED orch_exc /\ orch_pc' = "finally"
       ELSE orch_exc' = Some("Error") /\ orch_pc' = "except"
    /\ UNCHANGED <<config, mode>>
    /\ OrchFrame

\* except Exception: the run is logged as failed and the exception raised
\* again.
Except ==
    /\ orch_pc = "except"
    /\ Did("failed")
    /\ orch_pc' = "finally"
    /\ UNCHANGED <<config, mode, orch_exc, connections>>
    /\ OrchFrame

\* finally: con.close() when con is not None; main returns or raises.
Finally ==
    /\ orch_pc = "finally"
    /\ connections' = connections \ {"main"}
    /\ orch_pc' = IF orch_exc = NULL THEN "returned" ELSE "raised"
    /\ UNCHANGED <<config, mode, orch_exc, orch_log>>
    /\ OrchFrame

NextOrch ==
    \/ Validate
    \/ StartRunLog
    \/ Connect
    \/ IngestBegins
    \/ IngestSkipped
    \/ \E ok \in BOOLEAN : IngestEnds(ok)
    \/ TransformBegins
    \/ TransformSkipped
    \/ DbtStarts
    \/ \E rc \in {0, 1} : DbtEnds(rc)
    \/ \E ok \in BOOLEAN : RowCounts(ok)
    \/ \E outcome \in {"run_checks passed", "run_checks failed", "run_checks raised"} :
           RunChecks(outcome)
    \/ \E ok \in BOOLEAN : Analyse(ok)
    \/ Except
    \/ Finally

\* One call of main(config, mode).
SpecOrch == InitOrch /\ [][NextOrch]_vars

\* ---------------------------------------------------- main: phases, claims
\* The position of an event in orch_log, 0 when main has not done it.
DidAt(event) ==
    IF \E i \in 1..Len(orch_log) : orch_log[i] = event
    THEN CHOOSE i \in 1..Len(orch_log) : orch_log[i] = event
    ELSE 0

HasDone(event) == DidAt(event) > 0

\* Nothing of a run has begun: no run log entry, no connection, no phase.
NothingStarted == orch_log = <<>> /\ connections = {}

\* main has left with a configuration error before anything began.
RejectedBeforeRun ==
    /\ orch_pc = "raised"
    /\ orch_exc = Some("ValueError")
    /\ NothingStarted

BadTierGroups(c) ==
    \/ c.tiers_group_a = <<>>
    \/ c.tiers_group_b = <<>>
    \/ \E t \in ListItems(c.tiers_group_a) : t \in ListItems(c.tiers_group_b)

\* C23: a configuration with an empty tier group, or with a tier in both
\* groups, makes validate() raise ValueError, and main raises it before the
\* run log entry is written, before a connection is opened and before any
\* phase starts.
C23_BadTierGroupsRejectedBeforeRun ==
    /\ orch_pc = "start" => NothingStarted
    /\ (BadTierGroups(Val(config)) /\ orch_pc # "start") => RejectedBeforeRun

\* main has raised on a configuration whose groups share the tier Gold.
C23_Witness ==
    /\ Val(config).tiers_group_a = <<Gold>>
    /\ Val(config).tiers_group_b = <<Silver, Gold>>
    /\ RejectedBeforeRun

NonPositiveField(c) ==
    \/ c.default_session_duration_minutes <= 0
    \/ c.rebooking_window_days # NULL /\ Val(c.rebooking_window_days) <= 0
    \/ c.dq_max_duration_minutes <= 0
    \/ c.dq_max_orphan_rate <= 0

\* C24: a configuration whose default session duration, rebooking window
\* (when set), maximum-duration threshold or maximum-orphan-rate threshold is
\* zero or negative is rejected by validate() with a configuration error
\* before any phase starts.
C24_NonPositiveFieldsRejected ==
    (NonPositiveField(Val(config)) /\ orch_pc # "start") => RejectedBeforeRun

\* C25: whenever the analysis step has executed, run_checks was executed
\* earlier in the same run and returned no failure; and once run_checks has
\* returned failures, the run ends with an error and the analysis step never
\* executes.
C25_ChecksGateAnalysis ==
    /\ HasDone("analysis") =>
           /\ HasDone("run_checks passed")
           /\ DidAt("run_checks passed") < DidAt("analysis")
    /\ HasDone("run_checks failed") =>
           /\ ~HasDone("analysis")
           /\ orch_exc = Some("RuntimeError")
           /\ orch_pc \in {"except", "finally", "raised"}

\* C26: at every point of a run at most one connection to the warehouse is
\* open.
C26_AtMostOneConnection == Cardinality(connections) <= 1

\* ------------------------------------------------------------------ ingest
\* A source file: whether it is found, the columns of its header, its data
\* rows in file order.  A row of users_db_export.csv is its user_id and status
\* as written; a record of booking_events.json is its event_id (NULL when the
\* key is null or absent) and its user_id as str() gives it; a row of
\* mentor_tiers.csv is its three required columns, an empty field being NULL.
\* The columns left out are converted row by row and decide no row's fate.
Digits == <<"0", "1", "2", "3", "4", "5", "6", "7", "8", "9">>

IsDigit(ch) == \E d \in 1..Len(Digits) : Digits[d] = ch

DigitValue(ch) == (CHOOSE d \in 1..Len(Digits) : Digits[d] = ch) - 1

RECURSIVE DecimalValue(_)
DecimalValue(text) ==
    IF text = <<>> THEN 0
    ELSE 10 * DecimalValue(SubSeq(text, 1, Len(text) - 1)) + DigitValue(text[Len(text)])

\* cast(pl.Int64, strict=False) of a string: its value, NULL when it is no
\* number.
CastInt64(text) ==
    IF text # <<>> /\ \A i \in 1..Len(text) : IsDigit(text[i])
    THEN Some(DecimalValue(text))
    ELSE NULL

\* The letters of the texts in use, upper case and lower case.
Letters == << <<"D", "d">>, <<"E", "e">>, <<"G", "g">>, <<"I", "i">>, <<"L", "l">>,
              <<"O", "o">>, <<"R", "r">>, <<"S", "s">>, <<"V", "v">> >>

ToLowerChar(ch) ==
    IF \E l \in 1..Len(Letters) : Letters[l][1] = ch
    THEN Letters[CHOOSE l \in 1..Len(Letters) : Letters[l][1] = ch][2]
    ELSE ch

ToUpperChar(ch) ==
    IF \E l \in 1..Len(Letters) : Letters[l][2] = ch
    THEN Letters[CHOOSE l \in 1..Len(Letters) : Letters[l][2] = ch][1]
    ELSE ch

\* str.to_lowercase()
ToLowerCase(text) == [i \in 1..Len(text) |-> ToLowerChar(text[i])]

\* str.to_titlecase(): the first letter of a word in upper case, the others in
\* lower case.
ToTitleCase(text) ==
    [i \in 1..Len(text) |->
        IF i = 1 \/ text[i - 1] = " " THEN ToUpperChar(text[i]) ELSE ToLowerChar(text[i])]

\* A method of a string column applied to a nullable value.
OnText(Op(_), n) == IF n = NULL THEN NULL ELSE Some(Op(Val(n)))

StatusLive == <<"L", "i", "v", "e">>
StatusOld == <<" ", "O", "L", "D">>

UserSourceRows ==
    {[user_id |-> <<"1">>, status |-> StatusLive],
     [user_id |-> <<"1">>, status |-> StatusOld],
     [user_id |-> <<"2">>, status |-> StatusLive],
     [user_id |-> <<"x">>, status |-> StatusLive]}

EventSourceRows ==
    {[event_id |-> Some("e1"), user_id |-> <<"1">>],
     [event_id |-> Some("e1"), user_id |-> <<"2">>],
     [event_id |-> Some("e1"), user_id |-> <<"x">>],
     [event_id |-> NULL, user_id |-> <<"1">>]}

MentorSourceRows ==
    {[mentor_id |-> M01pad, tier |-> Some(<<" ", "g", "O", "L", "D">>),
      hourly_rate |-> NULL],
     [mentor_id |-> M02, tier |-> Some(<<"S", "I", "L", "V", "E", "R">>),
      hourly_rate |-> Some(100)],
     [mentor_id |-> M03, tier |-> NULL, hourly_rate |-> Some(50)]}

\* The lists of rows a file may hold, by their length.
RowLists(rows, n) == [1..n -> rows]

UserColumns == {"user_id", "status"}

MentorColumns == {"mentor_id", "tier", "hourly_rate"}

\* A file that is found: its header and its data rows.  A JSON array has no
\* header.
File(columns, rows) == [found |-> TRUE, columns |-> columns, rows |-> rows]

MissingFile == [found |-> FALSE, columns |-> {}, rows |-> <<>>]

\* The sources without rows to read: no file, or a file without data.
NoUsers == {MissingFile}

NoEvents == {MissingFile, File({}, <<>>)}

\* The mentor files without rows to read, and the one without its tier
\* column.
NoMentors ==
    {MissingFile,
     File(MentorColumns, <<>>),
     File(MentorColumns \ {"tier"},
          << [mentor_id |-> M01, tier |-> NULL, hourly_rate |-> Some(100)] >>)}

\* validate_csv(path, required_columns): the issues it returns.
ValidateCsv(src, required) ==
    IF ~src.found THEN <<"not found">>
    ELSE (IF required \ src.columns # {} THEN <<"missing columns">> ELSE <<>>)
             \o (IF src.rows = <<>> THEN <<"no data rows">> ELSE <<>>)

\* validate_json_file(path): the issues it returns.
ValidateJsonFile(src) ==
    IF ~src.found THEN <<"not found">>
    ELSE IF src.rows = <<>> THEN <<"empty JSON array">> ELSE <<>>

\* The rows of df at the positions in keep, in order.
RECURSIVE RowsAt(_, _)
RowsAt(df, keep) ==
    IF df = <<>> THEN <<>>
    ELSE LET front == RowsAt(SubSeq(df, 1, Len(df) - 1), keep)
         IN  IF Len(df) \in keep THEN Append(front, df[Len(df)]) ELSE front

\* df.drop_nulls(subset=[col])
DropNulls(df, col) == RowsAt(df, {i \in 1..Len(df) : df[i][col] # NULL})

\* df.unique(subset=[col], keep="first", maintain_order=True): a null equals
\* a null.
UniqueKeepFirst(df, col) ==
    RowsAt(df, {i \in 1..Len(df) : \A j \in 1..(i - 1) : df[j][col] # df[i][col]})

\* SQL r.pk = s.pk: true only of two equal values, neither NULL.
SqlEquals(a, b) == a # NULL /\ b # NULL /\ a = b

\* The rows of _staged that the WHERE NOT EXISTS of _incremental_insert lets
\* through.
NewRows(table, staged, pk) ==
    RowsAt(staged, {i \in 1..Len(staged) :
                       ~\E j \in 1..Len(table) : SqlEquals(table[j][pk], staged[i][pk])})

\* _incremental_insert(con, df, pk, table): the table after it and the count
\* it returns.
IncrementalInsert(table, df, pk) ==
    LET new_rows == Len(NewRows(table, df, pk))
    IN  [table |-> IF new_rows > 0 THEN table \o NewRows(table, df, pk) ELSE table,
         returned |-> new_rows]

\* CREATE TABLE ... AS SELECT * FROM df when the table does not exist, the
\* incremental insert when it does.
CreateOrInsert(stored, df, pk) ==
    IF stored = NULL THEN [table |-> df, returned |-> Len(df)]
    ELSE IncrementalInsert(Val(stored), df, pk)

\* ingest_users: the frame after the casts, the drop of unparseable ids, the
\* removal of source duplicates and the normalisation of status.
UsersFrame(src) ==
    LET read == [i \in 1..Len(src.rows) |->
                    [user_id |-> CastInt64(src.rows[i].user_id),
                     status |-> src.rows[i].status]]
        unique == UniqueKeepFirst(DropNulls(read, "user_id"), "user_id")
    IN  [i \in 1..Len(unique) |->
            [user_id |-> unique[i].user_id,
             status |-> ToLowerCase(Trim(unique[i].status))]]

\* ingest_events: the frame after the cast of user_id, the drop of
\* unparseable user ids and the removal of duplicate event ids.
EventsFrame(src) ==
    LET read == [i \in 1..Len(src.rows) |->
                    [event_id |-> src.rows[i].event_id,
                     user_id |-> CastInt64(src.rows[i].user_id)]]
    IN  UniqueKeepFirst(DropNulls(read, "user_id"), "event_id")

\* ingest_mentors: the frame after the three normalisations.
MentorsFrame(src) ==
    [i \in 1..Len(src.rows) |->
        [mentor_id |-> Trim(src.rows[i].mentor_id),
         tier |-> OnText(ToTitleCase, OnText(Trim, src.rows[i].tier)),
         hourly_rate |-> IF src.rows[i].hourly_rate = NULL THEN 0
                         ELSE Val(src.rows[i].hourly_rate)]]

\* An ingest_mentors that takes no tier for null.
NullTiersUncounted(df) == 0

\* null_tiers = df["tier"].is_null().sum()
NullTiers(df) == Cardinality({i \in 1..Len(df) : df[i].tier = NULL})

\* An ingest_mentors that appends to the table it finds.
AppendToTable(stored, df) == IF stored = NULL THEN df ELSE Val(stored) \o df

\* DROP TABLE IF EXISTS raw_mentors; CREATE TABLE raw_mentors AS SELECT * FROM df
ReplaceTable(stored, df) == df

IngestFrame ==
    UNCHANGED <<pairingVars, fct_sessions, dqVars, analysisVars, wilsonVars, guardVars,
                orchVars>>

\* The record of a call: its function and source, the table as the call found
\* it, whether it raised ValueError, what it returned, and whether the call
\* before it was the same function on the same source and returned.
Called(fn, src, raised, returned) ==
    /\ ingest_count < MaxCalls
    /\ ingest_count' = ingest_count + 1
    /\ ingest_call' =
           Some([fn |-> fn, source |-> src, before |-> store[fn], raised |-> raised,
                 returned |-> returned,
                 repeated |-> /\ ingest_call # NULL
                              /\ Val(ingest_call).fn = fn
                              /\ Val(ingest_call).source = src
                              /\ ~Val(ingest_call).raised])

InitIngest ==
    /\ raw_events = {}
    /\ default_duration = DefaultSessionDuration
    /\ iso_partition = <<>>
    /\ iso_sessions = {}
    /\ pairing_pc = "seeded"
    /\ fct_sessions = {}
    /\ DQIdle
    /\ AnalysisIdle
    /\ WilsonIdle
    /\ GuardIdle
    /\ OrchIdle
    /\ IngestIdle

\* ingest_users(con)
IngestUsers(src) ==
    /\ IF ValidateCsv(src, {"user_id"}) # <<>>
       THEN /\ Called("raw_users", src, TRUE, NULL)
            /\ UNCHANGED store
       ELSE LET result == CreateOrInsert(store.raw_users, UsersFrame(src), "user_id")
            IN  /\ Called("raw_users", src, FALSE, Some(result.returned))
                /\ store' = [store EXCEPT !.raw_users = Some(result.table)]
    /\ IngestFrame

\* ingest_mentors(con)
IngestMentors(src) ==
    /\ IF \/ ValidateCsv(src, MentorColumns) # <<>>
          \/ NullTiers(MentorsFrame(src)) > 0
       THEN /\ Called("raw_mentors", src, TRUE, NULL)
            /\ UNCHANGED store
       ELSE /\ Called("raw_mentors", src, FALSE, NULL)
            /\ store' = [store EXCEPT
                            !.raw_mentors = Some(ReplaceTable(store.raw_mentors,
                                                              MentorsFrame(src)))]
    /\ IngestFrame

\* ingest_events(con)
IngestEvents(src) ==
    /\ IF ValidateJsonFile(src) # <<>>
       THEN /\ Called("raw_events", src, TRUE, NULL)
            /\ UNCHANGED store
       ELSE LET result == CreateOrInsert(store.raw_events, EventsFrame(src), "event_id")
            IN  /\ Called("raw_events", src, FALSE, Some(result.returned))
                /\ store' = [store EXCEPT !.raw_events = Some(result.table)]
    /\ IngestFrame

\* The files of up to MaxSourceRows rows, with the given header.
Files(columns, rows) ==
    {File(columns, list) : list \in UNION {RowLists(rows, n) : n \in 1..MaxSourceRows}}

UserSources == Files(UserColumns, UserSourceRows) \cup NoUsers

EventSources == Files({}, EventSourceRows) \cup NoEvents

MentorSources == Files(MentorColumns, MentorSourceRows) \cup NoMentors

NextIngest ==
    \/ \E src \in UserSources : IngestUsers(src)
    \/ \E src \in EventSources : IngestEvents(src)

\* Calls of ingest_users and ingest_events on one warehouse, in any order,
\* each on a source of its own.
SpecIngest == InitIngest /\ [][NextIngest]_vars

NextMentors == \E src \in MentorSources : IngestMentors(src)

\* Calls of ingest_mentors on one warehouse, each on a source of its own: it
\* reads and writes no table but raw_mentors.
SpecMentors == InitIngest /\ [][NextMentors]_vars

\* ---------------------------------------------------------- ingest: claims
LastCall == Val(ingest_call)

\* The last call was of fn and returned.
Ingested(fn) == ingest_call # NULL /\ LastCall.fn = fn /\ ~LastCall.raised

\* The table of the last call, as the call left it.
TableNow == Val(store[LastCall.fn])

\* C21: when ingest_users or ingest_events is called again on the source of
\* the call before it, the second call returns 0 and leaves the table with
\* exactly the rows it had after the first call.
C21_ReingestInsertsNothing ==
    \A fn \in {"raw_users", "raw_events"} :
        (ingest_call # NULL /\ LastCall.fn = fn /\ LastCall.repeated) =>
            /\ ~LastCall.raised
            /\ LastCall.returned = Some(0)
            /\ store[fn] = LastCall.before

\* The stored mentor row is the source row: its id and tier without the
\* blanks around them, the tier in title case, a missing rate as 0.
IsMentorRow(stored, read) ==
    /\ stored.mentor_id = Trim(read.mentor_id)
    /\ read.tier # NULL
    /\ stored.tier = Some(ToTitleCase(Trim(Val(read.tier))))
    /\ stored.hourly_rate = IF read.hourly_rate = NULL THEN 0 ELSE Val(read.hourly_rate)

\* C22: after a call of ingest_mentors that returned, raw_mentors holds the
\* rows of the call's source, one for one and in order, whatever it held
\* before; called twice on one source, it holds as many rows as after the
\* first call.
C22_MentorsFullReplace ==
    Ingested("raw_mentors") =>
        /\ store.raw_mentors # NULL
        /\ Len(TableNow) = Len(LastCall.source.rows)
        /\ \A i \in 1..Len(TableNow) : IsMentorRow(TableNow[i], LastCall.source.rows[i])
        /\ LastCall.repeated => Len(TableNow) = Len(Val(LastCall.before))

\* ingest_mentors has replaced a table of two rows by the one row of its
\* source.
C22_Witness ==
    /\ Ingested("raw_mentors")
    /\ LastCall.before # NULL
    /\ Len(Val(LastCall.before)) = 2
    /\ Len(LastCall.source.rows) = 1
    /\ Len(TableNow) = 1

\* The id of a source row as the table keys it: the user id the text stands
\* for, the event id as it is.
SourceId(fn, read) ==
    IF fn = "raw_users" THEN CastInt64(read.user_id) ELSE read.event_id

StoredId(fn, stored) == IF fn = "raw_users" THEN stored.user_id ELSE stored.event_id

\* The stored row is the source row.
IsKeptFrom(fn, stored, read) ==
    IF fn = "raw_users"
    THEN /\ stored.user_id = CastInt64(read.user_id)
         /\ stored.status = ToLowerCase(Trim(read.status))
    ELSE /\ stored.event_id = read.event_id
         /\ stored.user_id = CastInt64(read.user_id)

NoTwoRowsOfOneId(fn) ==
    store[fn] # NULL =>
        \A i, j \in 1..Len(Val(store[fn])) :
            (i # j /\ StoredId(fn, Val(store[fn])[i]) # NULL) =>
                StoredId(fn, Val(store[fn])[i]) # StoredId(fn, Val(store[fn])[j])

\* What the table held before the last call is still there, row for row.
StoredRowsKept ==
    LastCall.before # NULL =>
        /\ Len(Val(LastCall.before)) <= Len(TableNow)
        /\ SubSeq(TableNow, 1, Len(Val(LastCall.before))) = Val(LastCall.before)

\* Row i of the source is the first of several rows with its id, an id the
\* table did not hold.
IsFirstOfDuplicates(fn, rows, i) ==
    /\ SourceId(fn, rows[i]) # NULL
    /\ \A j \in 1..(i - 1) : SourceId(fn, rows[j]) # SourceId(fn, rows[i])
    /\ \E j \in (i + 1)..Len(rows) : SourceId(fn, rows[j]) = SourceId(fn, rows[i])
    /\ LastCall.before # NULL =>
           \A k \in 1..Len(Val(LastCall.before)) :
               StoredId(fn, Val(LastCall.before)[k]) # SourceId(fn, rows[i])

FirstOccurrenceKept(fn) ==
    \A i \in 1..Len(LastCall.source.rows) :
        IsFirstOfDuplicates(fn, LastCall.source.rows, i) =>
            \A k \in 1..Len(TableNow) :
                StoredId(fn, TableNow[k]) = SourceId(fn, LastCall.source.rows[i]) =>
                    IsKeptFrom(fn, TableNow[k], LastCall.source.rows[i])

\* C29: after any calls of ingest_users and ingest_events, raw_users has no
\* two rows of one user id and raw_events no two rows of one event id; of the
\* rows of a source with one id the first is the one kept; and the rows a
\* table held before a call are still there after it, unchanged.
C29_UniqueIdsFirstOccurrenceKept ==
    \A fn \in {"raw_users", "raw_events"} :
        /\ NoTwoRowsOfOneId(fn)
        /\ Ingested(fn) => StoredRowsKept /\ FirstOccurrenceKept(fn)

\* The source is one that ingest_mentors rejects: no file, a required column
\* missing, no data row, or a row without a tier.
IsRejectedMentorSource(src) ==
    \/ ~src.found
    \/ ~(MentorColumns \subseteq src.columns)
    \/ src.rows = <<>>
    \/ \E i \in 1..Len(src.rows) : src.rows[i].tier = NULL

\* C30: a call of ingest_mentors on a source it rejects raises ValueError and
\* leaves raw_mentors exactly as the call found it.
C30_RejectedMentorsWriteNothing ==
    (ingest_call # NULL /\ LastCall.fn = "raw_mentors"
        /\ IsRejectedMentorSource(LastCall.source)) =>
        /\ LastCall.raised
        /\ store.raw_mentors = LastCall.before

\* ingest_mentors has raised on a file with a row without a tier, the table
\* stored by an earlier call untouched.
C30_Witness ==
    /\ ingest_call # NULL /\ LastCall.fn = "raw_mentors"
    /\ LastCall.source.found
    /\ \E i \in 1..Len(LastCall.source.rows) : LastCall.source.rows[i].tier = NULL
    /\ LastCall.raised
    /\ LastCall.before # NULL
    /\ store.raw_mentors = LastCall.before

====
